---- MODULE Spec2Model ----
(***************************************************************************)
(* Model of the instrument agent control core of ioncore-python            *)
(* (ion/agents/instrumentagents/instrument_agent.py): the exclusive        *)
(* transaction manager with its acquisition queue and timers, the          *)
(* protected-operation wrapper shared by the op_* handlers, the agent      *)
(* state machine with its state handlers, and the driver lifecycle; and of  *)
(* the in-memory IndexStore of ion/core/data/store.py.                     *)
(*                                                                         *)
(* Python values: None is the string "None"; an integer argument that is   *)
(* None is NoneInt; a twisted DelayedCall is a record, NoCall is the None  *)
(* handle; the reactor is the set of DelayedCalls that are still pending.  *)
(***************************************************************************)
EXTENDS Integers, Sequences, FiniteSets, TLC

None == "None"
NoneInt == 0 - 1

\* ------------------------------------------------------------------ bounds
MaxTrans == 3        \* uuid4 tokens generated in one behaviour
MaxReq == 3          \* _request_transaction calls in one behaviour
MaxSpawn == 2        \* spawn_child calls in one behaviour
MaxDrivers == 3      \* spawn_child calls when only the driver is exercised

\* ------------------------------------------------------- program constants
INIT_MAX_ACQ_TIMEOUT == 60
INIT_MIN_EXP_TIMEOUT == 1
INIT_DEFAULT_EXP_TIMEOUT == 300
INIT_MAX_EXP_TIMEOUT == 1800
UUID_LEN == 36

\* str(uuid4()): the n-th token generated, a 36 character string.
UuidPool ==
  << "00000000-0000-4000-8000-000000000001",
     "00000000-0000-4000-8000-000000000002",
     "00000000-0000-4000-8000-000000000003",
     "00000000-0000-4000-8000-000000000004",
     "00000000-0000-4000-8000-000000000005",
     "00000000-0000-4000-8000-000000000006" >>

uuid4(n) == UuidPool[n]

\* A well-formed token that the agent never generated.
ForgedToken == "ffffffff-ffff-4fff-8fff-ffffffffffff"

\* InstErrorCode.is_error / is_ok
is_ok(success) == success = "OK"
is_error(success) == ~ is_ok(success)

AgentStates ==
  { "POWERED_DOWN", "UNINITIALIZED", "INACTIVE", "IDLE", "STOPPED",
    "OBSERVATORY_MODE", "DIRECT_ACCESS_MODE" }

VARIABLES
  transaction_id,            \* self.transaction_id
  transaction_timed_out,     \* self._transaction_timed_out
  transaction_timeout_call,  \* self._transaction_timeout_call
  pending_transactions,      \* self._pending_transactions
  in_protected_function,     \* self._in_protected_function
  limits,                    \* _max_acq/_min_exp/_default_exp/_max_exp_timeout
  reactor,                   \* pending reactor.callLater calls
  deferreds,                 \* deferred d -> the values it was called back with
  next_uuid,                 \* tokens generated so far + 1
  next_d,                    \* deferreds created so far + 1
  ended_transactions,        \* history: the tokens _end_transaction has ended
  fsm_state,                 \* self._fsm.get_current_state()
  driver_pid,                \* self._driver_pid
  driver_client,             \* self._driver_client: the pid it targets
  condemned_drivers,         \* self._condemned_drivers
  child_procs,               \* self.child_procs: the proc_id of each child
  next_pid,                  \* child processes spawned so far + 1
  shut_down,                 \* the children shutdown_child was called for
  op,                        \* the protected operation in flight
  protected_calls,           \* protected handlers begun and not yet ended
  fsm_events,                \* events given to the state machine, not yet handled
  kvs,                       \* IndexStore.kvs: row key -> row
  indices,                   \* IndexStore.indices: attribute -> value -> keys
  last                       \* the step just taken and what it returned

vars ==
  << transaction_id, transaction_timed_out, transaction_timeout_call,
     pending_transactions, in_protected_function, limits, reactor, deferreds,
     next_uuid, next_d, ended_transactions, fsm_state, driver_pid,
     driver_client, condemned_drivers, child_procs, next_pid, shut_down, op,
     protected_calls, fsm_events, kvs, indices, last >>

store_vars == << kvs, indices >>

call_vars == << protected_calls, fsm_events >>

driver_vars ==
  << driver_pid, driver_client, condemned_drivers, child_procs, next_pid,
     shut_down >>

NoCall == [func |-> "None", key |-> "None", delay |-> 0]

ExpCall(tid, delay) == [func |-> "transaction_expired", key |-> tid, delay |-> delay]

\* Deferreds are named by strings so that a DelayedCall's key is a string.
DeferredPool == << "d1", "d2", "d3", "d4", "d5", "d6" >>

AcqCall(d, delay) == [func |-> "acquisition_timeout", key |-> d, delay |-> delay]

\* The mutable fields of the agent the transaction manager reads and writes.
Agent ==
  [ transaction_id |-> transaction_id,
    transaction_timed_out |-> transaction_timed_out,
    transaction_timeout_call |-> transaction_timeout_call,
    pending_transactions |-> pending_transactions,
    in_protected_function |-> in_protected_function,
    limits |-> limits,
    reactor |-> reactor,
    deferreds |-> deferreds,
    next_uuid |-> next_uuid,
    ended_transactions |-> ended_transactions ]

Store(s) ==
  /\ transaction_id' = s.transaction_id
  /\ transaction_timed_out' = s.transaction_timed_out
  /\ transaction_timeout_call' = s.transaction_timeout_call
  /\ pending_transactions' = s.pending_transactions
  /\ in_protected_function' = s.in_protected_function
  /\ limits' = s.limits
  /\ reactor' = s.reactor
  /\ deferreds' = s.deferreds
  /\ next_uuid' = s.next_uuid
  /\ ended_transactions' = s.ended_transactions

\* Deferred.callback(value): the value is delivered to the waiting caller.
callback(s, d, value) ==
  [s EXCEPT !.deferreds = [@ EXCEPT ![d] = Append(@, value)]]

\* The range clamp at the head of _start_transaction / _request_transaction.
ClampExp(s, exp_timeout) ==
  IF exp_timeout = NoneInt THEN s.limits.default_exp_timeout
  ELSE IF exp_timeout > s.limits.max_exp_timeout THEN s.limits.max_exp_timeout
  ELSE IF exp_timeout < s.limits.min_exp_timeout THEN s.limits.min_exp_timeout
  ELSE exp_timeout

\* Faulty variant: an unspecified acquisition timeout waits the maximum time.
ClampAcq_none_waits(s, acq_timeout) ==
  IF acq_timeout = NoneInt THEN s.limits.max_acq_timeout
  ELSE IF acq_timeout > s.limits.max_acq_timeout THEN s.limits.max_acq_timeout
  ELSE acq_timeout

ClampAcq(s, acq_timeout) ==
  IF acq_timeout = NoneInt THEN 0
  ELSE IF acq_timeout > s.limits.max_acq_timeout THEN s.limits.max_acq_timeout
  ELSE acq_timeout

\* Faulty variant: a transaction is issued without the test that the resource is free.
start_transaction_unchecked(s, exp_timeout) ==
  LET exp == ClampExp(s, exp_timeout)
      tid == uuid4(s.next_uuid)
      call == ExpCall(tid, exp)
  IN [ s |-> [s EXCEPT !.transaction_id = tid,
                       !.next_uuid = @ + 1,
                       !.transaction_timeout_call = call,
                       !.reactor = @ \cup {call}],
       success |-> "OK", tid |-> tid ]

\* _start_transaction(exp_timeout) -> (success, transaction_id)
start_transaction(s, exp_timeout) ==
  LET exp == ClampExp(s, exp_timeout)
      tid == uuid4(s.next_uuid)
      call == ExpCall(tid, exp)
  IN IF s.transaction_id = None
     THEN [ s |-> [s EXCEPT !.transaction_id = tid,
                            !.next_uuid = @ + 1,
                            !.transaction_timeout_call = call,
                            !.reactor = @ \cup {call}],
            success |-> "OK", tid |-> tid ]
     ELSE [ s |-> s, success |-> "LOCKED_RESOURCE", tid |-> None ]

\* Faulty variant: the call is left pending.
cancel_forgotten(calls, call) == calls

\* DelayedCall.cancel(): the call leaves the reactor.
cancel(calls, call) == calls \ { call }

\* Faulty variant: pop() takes the newest request instead of the oldest.
pop_pending_last(list) ==
  [ item |-> list[Len(list)], rest |-> SubSeq(list, 1, Len(list) - 1) ]

\* self._pending_transactions.pop(0): the item taken and the list left.
pop_pending(list) == [ item |-> Head(list), rest |-> Tail(list) ]

\* Faulty variant: the two error codes are exchanged.
not_current_result_swapped(s) ==
  IF s.transaction_id = None THEN "LOCKED_RESOURCE" ELSE "RESOURCE_NOT_LOCKED"

\* The two elif branches of _end_transaction for a token that is not current.
not_current_result(s) ==
  IF s.transaction_id = None THEN "RESOURCE_NOT_LOCKED" ELSE "LOCKED_RESOURCE"

\* Faulty variant: the transaction is ended and the queue is left waiting.
end_transaction_no_handover(s, tid) ==
  IF tid = None THEN [ s |-> s, success |-> "AssertionError" ]
  ELSE IF tid = s.transaction_id THEN
    [ s |-> [s EXCEPT !.transaction_id = None,
                      !.transaction_timed_out = FALSE,
                      !.ended_transactions = @ \cup { tid },
                      !.reactor = cancel(@, s.transaction_timeout_call),
                      !.transaction_timeout_call = NoCall],
      success |-> "OK" ]
  ELSE [ s |-> s, success |-> not_current_result(s) ]

\* _end_transaction(tid) -> {'success': ...}; "AssertionError" (tid is no
\* str) and "AlreadyCalled" (cancel of a call that is not pending) stand for
\* the exception leaving the function.
end_transaction(s, tid) ==
  IF tid = None THEN [ s |-> s, success |-> "AssertionError" ]
  ELSE IF tid = s.transaction_id THEN
    LET s1 == [s EXCEPT !.transaction_id = None,
                        !.transaction_timed_out = FALSE,
                        !.ended_transactions = @ \cup { tid }]
        s2 == IF s1.transaction_timeout_call # NoCall
              THEN [s1 EXCEPT !.reactor = cancel(@, s1.transaction_timeout_call),
                              !.transaction_timeout_call = NoCall]
              ELSE s1
    IN IF s1.transaction_timeout_call # NoCall
          /\ s1.transaction_timeout_call \notin s1.reactor
       THEN [ s |-> s1, success |-> "AlreadyCalled" ]
       ELSE IF Len(s2.pending_transactions) > 0
       THEN LET popped == pop_pending(s2.pending_transactions)
                item == popped.item
                s3 == [s2 EXCEPT !.pending_transactions = popped.rest]
                s4 == [s3 EXCEPT !.reactor = cancel(@, item.call)]
                r == start_transaction(s4, item.exp_timeout)
            IN IF item.call \notin s3.reactor
               THEN [ s |-> s3, success |-> "AlreadyCalled" ]
               ELSE [ s |-> callback(r.s, item.d, << r.success, r.tid >>),
                      success |-> "OK" ]
       ELSE [ s |-> s2, success |-> "OK" ]
  ELSE [ s |-> s, success |-> not_current_result(s) ]

\* list.remove(item): the first element equal to item is removed.
RECURSIVE list_remove(_, _)
list_remove(list, item) ==
  IF list = << >> THEN << >>
  ELSE IF Head(list) = item THEN Tail(list)
  ELSE << Head(list) >> \o list_remove(Tail(list), item)

\* Faulty variant: the timed out request is called back but left in the queue.
RECURSIVE acquisition_scan_keep(_, _, _)
acquisition_scan_keep(s, i, d) ==
  IF i > Len(s.pending_transactions) THEN s
  ELSE IF s.pending_transactions[i].d = d
  THEN acquisition_scan_keep(callback(s, d, << "TIMEOUT", None >>), i + 1, d)
  ELSE acquisition_scan_keep(s, i + 1, d)

\* The loop of acquisition_timeout: "for item in self._pending_transactions"
\* walks the list by index while the body removes from it; every match is
\* removed and the deferred called back once per match.
RECURSIVE acquisition_scan(_, _, _)
acquisition_scan(s, i, d) ==
  IF i > Len(s.pending_transactions) THEN s
  ELSE IF s.pending_transactions[i].d = d
  THEN acquisition_scan(
         callback([s EXCEPT !.pending_transactions =
                               list_remove(@, s.pending_transactions[i])],
                  d, << "TIMEOUT", None >>),
         i + 1, d)
  ELSE acquisition_scan(s, i + 1, d)

\* The closure acquisition_timeout of _request_transaction, for deferred d.
acquisition_timeout(s, d) == acquisition_scan(s, 1, d)

\* Faulty variant: a request with an acquisition timeout waits in the queue
\* even when the resource is free.
request_transaction_always_queues(s, acq_timeout, exp_timeout, requester, d) ==
  LET exp == ClampExp(s, exp_timeout)
      acq == ClampAcq(s, acq_timeout)
      s0 == [s EXCEPT !.deferreds = [x \in DOMAIN @ \cup {d} |->
                                       IF x \in DOMAIN @ THEN @[x] ELSE << >>]]
  IN IF s0.transaction_id = None /\ acq = 0
     THEN LET r == start_transaction(s0, exp)
          IN callback(r.s, d, << r.success, r.tid >>)
     ELSE IF acq = 0
     THEN callback(s0, d, << "LOCKED_RESOURCE", None >>)
     ELSE LET call == AcqCall(d, acq)
          IN [s0 EXCEPT !.reactor = @ \cup {call},
                        !.pending_transactions =
                           Append(@, [d |-> d, call |-> call,
                                      exp_timeout |-> exp,
                                      requester |-> requester])]

\* _request_transaction(acq_timeout, exp_timeout, requester) with the new
\* deferred d; returns the agent after the call.
request_transaction(s, acq_timeout, exp_timeout, requester, d) ==
  LET exp == ClampExp(s, exp_timeout)
      acq == ClampAcq(s, acq_timeout)
      s0 == [s EXCEPT !.deferreds = [x \in DOMAIN @ \cup {d} |->
                                       IF x \in DOMAIN @ THEN @[x] ELSE << >>]]
  IN IF s0.transaction_id = None
     THEN LET r == start_transaction(s0, exp)
          IN callback(r.s, d, << r.success, r.tid >>)
     ELSE IF acq = 0
     THEN callback(s0, d, << "LOCKED_RESOURCE", None >>)
     ELSE LET call == AcqCall(d, acq)
          IN [s0 EXCEPT !.reactor = @ \cup {call},
                        !.pending_transactions =
                           Append(@, [d |-> d, call |-> call,
                                      exp_timeout |-> exp,
                                      requester |-> requester])]

\* The closure transaction_expired of _start_transaction. It reads
\* self.transaction_id when it runs.
transaction_expired(s) ==
  LET s1 == [s EXCEPT !.transaction_timeout_call = NoCall]
  IN IF s1.in_protected_function
     THEN [ s |-> [s1 EXCEPT !.transaction_timed_out = TRUE],
            success |-> "deferred" ]
     ELSE end_transaction(s1, s1.transaction_id)

\* Faulty variant: the token "none" is accepted for every kind of operation.
verify_transaction_none_any(s, tid, optype) ==
  IF tid # "create" /\ tid # "none" /\ Len(tid) # UUID_LEN
  THEN [ s |-> s, success |-> "INVALID_TRANSACTION_ID" ]
  ELSE IF tid = "create"
  THEN LET r == start_transaction(s, s.limits.default_exp_timeout)
       IN [ s |-> r.s,
            success |-> IF is_ok(r.success) THEN "OK" ELSE "LOCKED_RESOURCE" ]
  ELSE IF tid = "none" /\ s.transaction_id = None
  THEN [ s |-> s, success |-> "OK" ]
  ELSE IF tid = s.transaction_id
  THEN [ s |-> s, success |-> "OK" ]
  ELSE [ s |-> s, success |-> "LOCKED_RESOURCE" ]

\* _verify_transaction(tid, optype) up to its error announcement.
verify_transaction(s, tid, optype) ==
  IF tid # "create" /\ tid # "none" /\ Len(tid) # UUID_LEN
  THEN [ s |-> s, success |-> "INVALID_TRANSACTION_ID" ]
  ELSE IF tid = "create"
  THEN LET r == start_transaction(s, s.limits.default_exp_timeout)
       IN [ s |-> r.s,
            success |-> IF is_ok(r.success) THEN "OK" ELSE "LOCKED_RESOURCE" ]
  ELSE IF tid = "none" /\ s.transaction_id = None /\ optype = "get"
  THEN [ s |-> s, success |-> "OK" ]
  ELSE IF tid = s.transaction_id
  THEN [ s |-> s, success |-> "OK" ]
  ELSE [ s |-> s, success |-> "LOCKED_RESOURCE" ]

\* "Publish any errors" at the end of _verify_transaction: the announcer is
\* called for an error code before the code is returned.
verify_announces(success) == is_error(success)

\* The optype each handler passes to _verify_transaction.
optype(name) ==
  CASE name = "op_execute_observatory" -> "execute"
    [] name = "op_get_observatory" -> "get"
    [] name = "op_set_observatory" -> "set"
    [] name = "op_execute_device" -> "execute"
    [] name = "op_get_device" -> "get"
    [] name = "op_set_device" -> "set"
    [] name = "op_execute_device_direct" -> "execute"

\* Faulty variant: op_set_device is let through in the states of op_get_device.
allowed_states_set_as_get(name) ==
  CASE name = "op_execute_device" -> { "OBSERVATORY_MODE" }
    [] name = "op_get_device" -> { "OBSERVATORY_MODE", "IDLE", "STOPPED" }
    [] name = "op_set_device" -> { "OBSERVATORY_MODE", "IDLE", "STOPPED" }
    [] name = "op_execute_device_direct" -> { "DIRECT_ACCESS_MODE" }
    [] OTHER -> AgentStates

\* The agent states in which a handler goes on to its body; the observatory
\* handlers have no state check.
allowed_states(name) ==
  CASE name = "op_execute_device" -> { "OBSERVATORY_MODE" }
    [] name = "op_get_device" -> { "OBSERVATORY_MODE", "IDLE", "STOPPED" }
    [] name = "op_set_device" -> { "OBSERVATORY_MODE" }
    [] name = "op_execute_device_direct" -> { "DIRECT_ACCESS_MODE" }
    [] OTHER -> AgentStates

\* The method of the driver client a device handler calls first in its body.
driver_method(name) ==
  CASE name = "op_execute_device" -> "execute"
    [] name = "op_get_device" -> "get"
    [] name = "op_set_device" -> "set"
    [] name = "op_execute_device_direct" -> "execute_direct"
    [] OTHER -> None

NoOp == [ pc |-> "idle", name |-> "None", tid |-> "None", success |-> "None",
          reply_tid |-> "None", event |-> "None", announced |-> FALSE ]

\* The finally clause of a handler, from the test of tid to the clearing of
\* the flag; an exception of _end_transaction leaves the clause at once.
op_cleanup(s, tid) ==
  IF tid = "create" \/ s.transaction_timed_out = TRUE
  THEN LET r == end_transaction(s, s.transaction_id)
       IN IF r.success \in { "AssertionError", "AlreadyCalled" }
          THEN [ s |-> r.s, raised |-> TRUE ]
          ELSE [ s |-> [r.s EXCEPT !.in_protected_function = FALSE],
                 raised |-> FALSE ]
  ELSE [ s |-> [s EXCEPT !.in_protected_function = FALSE], raised |-> FALSE ]

\* ------------------------------------------------------------ index store
\* A python dict is a function; a row of kvs is one dict that holds the
\* value under "value" next to the index attributes it was stored with.
EmptyDict == [ x \in {} |-> {} ]

dict_get(d, k, default) == IF k \in DOMAIN d THEN d[k] ELSE default

\* dict.update
dict_update(d, e) ==
  [ x \in DOMAIN d \cup DOMAIN e |-> IF x \in DOMAIN e THEN e[x] ELSE d[x] ]

\* del d[k]
dict_del(d, k) == [ x \in DOMAIN d \ { k } |-> d[x] ]

\* The dicts with keys in D and values in R.
Dicts(D, R) == UNION { [ S -> R ] : S \in SUBSET D }

\* The indices the store is constructed with, and the inputs of its calls.
IndexedAttributes == { "Subject", "Predicate" }
AttributeValues == { "Me", "You" }
StoreKeys == { "Key1", "Key2" }
StoreValues == { "Value1", "Value2" }
IndexAttributeDicts == Dicts(IndexedAttributes, AttributeValues)

\* The two dicts of the store the methods read and write.
IndexStore == [ kvs |-> kvs, indices |-> indices ]

StoreBack(st) ==
  /\ kvs' = st.kvs
  /\ indices' = st.indices

\* IndexStore._update_index: the key leaves the index entry of the old
\* value of each given attribute the stored row has, and enters the entry
\* of the new value of each given attribute.
private_update_index(st, key, index_attributes) ==
  LET stored == key \in DOMAIN st.kvs
      discarded(k, kindex) ==
        IF stored /\ k \in DOMAIN st.kvs[key]
        THEN [ kindex EXCEPT ![st.kvs[key][k]] = @ \ { key } ]
        ELSE kindex
      added(k, kindex) ==
        LET v == index_attributes[k]
        IN dict_update(kindex, v :> (dict_get(kindex, v, {}) \cup { key }))
  IN [ st EXCEPT !.indices =
         [ k \in DOMAIN @ |->
             IF k \in DOMAIN index_attributes
             THEN added(k, discarded(k, @[k]))
             ELSE @[k] ] ]

\* IndexStore.get: None for a key that is not stored, else the entry
\* "value" of its row.
get(st, key) ==
  IF key \notin DOMAIN st.kvs THEN None
  ELSE dict_get(st.kvs[key], "value", None)

\* IndexStore.has_key
has_key(st, key) == key \in DOMAIN st.kvs

\* Faulty variant: a put of a stored key keeps the row it finds.
put_keeps_first(st, key, value, index_attributes) ==
  LET st1 == private_update_index(st, key, index_attributes)
  IN [ st1 EXCEPT !.kvs =
         dict_update(key :> dict_update("value" :> value,
                                        index_attributes), @) ]

\* IndexStore.put
put(st, key, value, index_attributes) ==
  LET st1 == private_update_index(st, key, index_attributes)
  IN [ st1 EXCEPT !.kvs =
         dict_update(@, key :> dict_update("value" :> value,
                                           index_attributes)) ]

\* IndexStore.remove
remove(st, key) ==
  IF key \in DOMAIN st.kvs
  THEN [ st EXCEPT !.kvs = dict_del(@, key) ]
  ELSE st

\* IndexStore.update_index: self.kvs[key] raises KeyError for a key that is
\* not stored, after _update_index has run.
update_index(st, key, index_attributes) ==
  LET st1 == private_update_index(st, key, index_attributes)
  IN IF key \in DOMAIN st1.kvs
     THEN [ st |-> [ st1 EXCEPT !.kvs[key] =
                                  dict_update(@, index_attributes) ],
            raised |-> FALSE ]
     ELSE [ st |-> st1, raised |-> TRUE ]

\* IndexStore.query for a list of equality predicates <<name, value>>: the
\* keys of the last predicate's index entry, intersected with the entry of
\* every predicate, and of these the keys that are stored, with their rows.
RECURSIVE intersection_update(_, _, _)
intersection_update(st, keys, predicates) ==
  IF predicates = << >> THEN keys
  ELSE LET kindex == st.indices[Head(predicates)[1]]
           v == Head(predicates)[2]
       IN intersection_update(st,
            IF kindex # EmptyDict THEN keys \cap dict_get(kindex, v, {})
            ELSE keys,
            Tail(predicates))

query(st, predicates) ==
  LET popped == predicates[Len(predicates)]
      kindex == st.indices[popped[1]]
      first == IF kindex # EmptyDict THEN dict_get(kindex, popped[2], {})
               ELSE {}
      keys == intersection_update(st, first, predicates)
  IN [ k \in { x \in keys : x \in DOMAIN st.kvs } |-> st.kvs[k] ]

\* ------------------------------------------------------- driver lifecycle
\* The proc_id of the n-th child process spawned.
PidPool == << "pid1", "pid2", "pid3", "pid4" >>

\* The fields of the agent the driver lifecycle methods read and write.
Driver ==
  [ driver_pid |-> driver_pid,
    driver_client |-> driver_client,
    condemned_drivers |-> condemned_drivers,
    child_procs |-> child_procs,
    next_pid |-> next_pid,
    shut_down |-> shut_down ]

StoreDriver(dv) ==
  /\ driver_pid' = dv.driver_pid
  /\ driver_client' = dv.driver_client
  /\ condemned_drivers' = dv.condemned_drivers
  /\ child_procs' = dv.child_procs
  /\ next_pid' = dv.next_pid
  /\ shut_down' = dv.shut_down

SeqRange(list) == { list[i] : i \in 1 .. Len(list) }

\* Process.shutdown_child, called once for each child in the list.
shutdown_child(dv, items) == [dv EXCEPT !.shut_down = @ \o items]

\* The children of the list whose proc_id is, or is not, one of the pids.
children_in(list, pids) == SelectSeq(list, LAMBDA item : item \in pids)

children_not_in(list, pids) ==
  SelectSeq(list, LAMBDA item : item \notin pids)

\* Faulty variant: the driver is shut down and its client kept.
stop_driver_keeps_client(dv) ==
  IF dv.driver_pid # None
  THEN LET mine == children_in(dv.child_procs, { dv.driver_pid })
       IN [shutdown_child(dv, mine)
             EXCEPT !.child_procs = list_remove(@, dv.driver_pid),
                    !.driver_pid = None]
  ELSE dv

\* _stop_driver
stop_driver(dv) ==
  IF dv.driver_pid # None
  THEN LET mine == children_in(dv.child_procs, { dv.driver_pid })
       IN [shutdown_child(dv, mine)
             EXCEPT !.child_procs = list_remove(@, dv.driver_pid),
                    !.driver_pid = None,
                    !.driver_client = None]
  ELSE dv

\* Faulty variant: the condemned driver is shut down on the spot.
condemn_driver_shuts_down(dv) ==
  IF dv.driver_pid # None
  THEN [stop_driver(dv)
          EXCEPT !.condemned_drivers = Append(@, dv.driver_pid)]
  ELSE dv

\* _condemn_driver
condemn_driver(dv) ==
  IF dv.driver_pid # None
  THEN [dv EXCEPT !.condemned_drivers = Append(@, dv.driver_pid),
                  !.driver_pid = None,
                  !.driver_client = None]
  ELSE dv

\* Faulty variant: the condemned children are dropped from child_procs and
\* left running.
stop_condemned_drivers_no_shutdown(dv) ==
  [dv EXCEPT !.child_procs =
               children_not_in(@, SeqRange(dv.condemned_drivers))]

\* _stop_condemned_drivers: the condemned children are shut down and dropped
\* from child_procs; _condemned_drivers itself is left as it is.
stop_condemned_drivers(dv) ==
  LET condemned == SeqRange(dv.condemned_drivers)
  IN [shutdown_child(dv, children_in(dv.child_procs, condemned))
        EXCEPT !.child_procs = children_not_in(@, condemned)]

\* What the environment makes of one _start_driver call.
SpawnOutcomes ==
  { "no_desc",              \* a descriptor lacks module, class or name
    "spawn_import_error",   \* spawn_child raises ImportError
    "spawn_error",          \* spawn_child raises another exception
    "client_import_error",  \* the client import raises ImportError
    "client_error",         \* the client construction raises another exception
    "ok" }

\* Process.spawn_child: the child is recorded and its id returned.
spawn_child(dv) ==
  [dv EXCEPT !.child_procs = Append(@, PidPool[dv.next_pid]),
             !.driver_pid = PidPool[dv.next_pid],
             !.next_pid = @ + 1]

\* Faulty variant: a failed client import leaves the spawned driver running.
start_driver_half(dv, sp) ==
  CASE sp = "no_desc" -> [ dv |-> dv, raised |-> FALSE ]
    [] sp = "spawn_import_error" -> [ dv |-> dv, raised |-> FALSE ]
    [] sp = "spawn_error" -> [ dv |-> dv, raised |-> TRUE ]
    [] sp = "client_import_error" ->
         [ dv |-> spawn_child(dv), raised |-> FALSE ]
    [] sp = "client_error" ->
         [ dv |-> stop_driver(spawn_child(dv)), raised |-> TRUE ]
    [] sp = "ok" ->
         LET dv1 == spawn_child(dv)
         IN [ dv |-> [dv1 EXCEPT !.driver_client = dv1.driver_pid],
              raised |-> FALSE ]

\* _start_driver
start_driver(dv, sp) ==
  CASE sp = "no_desc" -> [ dv |-> dv, raised |-> FALSE ]
    [] sp = "spawn_import_error" -> [ dv |-> dv, raised |-> FALSE ]
    [] sp = "spawn_error" -> [ dv |-> dv, raised |-> TRUE ]
    [] sp = "client_import_error" ->
         [ dv |-> stop_driver(spawn_child(dv)), raised |-> FALSE ]
    [] sp = "client_error" ->
         [ dv |-> stop_driver(spawn_child(dv)), raised |-> TRUE ]
    [] sp = "ok" ->
         LET dv1 == spawn_child(dv)
         IN [ dv |-> [dv1 EXCEPT !.driver_client = dv1.driver_pid],
              raised |-> FALSE ]

\* ---------------------------------------------------------- state handlers
\* The events a caller can send with the TRANSITION command.
AgentEvents ==
  { "INITIALIZE", "RESET", "GO_ACTIVE", "GO_INACTIVE", "RUN", "CLEAR",
    "PAUSE", "RESUME", "GO_OBSERVATORY_MODE", "GO_DIRECT_ACCESS_MODE" }

\* What a call of the driver client comes back with: a reply whose success
\* is OK, a reply with an error code, or an exception.
DriverReplies == { "OK", "TIMEOUT", "raise" }

\* defer.returnValue((success, next_state, result)) of a state handler,
\* with the calls it made to the driver and to the lifecycle methods.
Handled(success, next_state, dv, calls) ==
  [ success |-> success, next_state |-> next_state, dv |-> dv,
    calls |-> calls ]

\* An exception leaves the handler.
Raised(dv, calls) ==
  [ success |-> "raise", next_state |-> None, dv |-> dv, calls |-> calls ]

\* Faulty variant: a disconnected agent is powered down.
go_inactive_powers_down(dv, reply) ==
  LET calls == << << "disconnect", reply >> >>
  IN IF reply = "raise"
     THEN Handled("DRIVER_CONNECT_FAILED", None, dv, calls)
     ELSE IF is_ok(reply)
     THEN Handled(reply, "POWERED_DOWN", dv, calls)
     ELSE Handled(reply, None, dv, calls)

\* The GO_INACTIVE branch shared by the handlers of the connected states.
go_inactive(dv, reply) ==
  LET calls == << << "disconnect", reply >> >>
  IN IF reply = "raise"
     THEN Handled("DRIVER_CONNECT_FAILED", None, dv, calls)
     ELSE IF is_ok(reply)
     THEN Handled(reply, "INACTIVE", dv, calls)
     ELSE Handled(reply, None, dv, calls)

\* Faulty variant: the driver is condemned whatever the disconnect came back with.
reset_connected_always_condemns(dv, reply, except_code) ==
  LET dv1 == condemn_driver(dv)
      calls == << << "disconnect", reply >>, << "_condemn_driver", None >> >>
  IN IF dv1.driver_pid = None
     THEN Handled(IF reply = "raise" THEN except_code ELSE reply,
                  "UNINITIALIZED", dv1, calls)
     ELSE Handled("AGENT_DEINIT_FAILED", "INACTIVE", dv1, calls)

\* The RESET branch shared by the handlers of the connected states.
reset_connected(dv, reply, except_code) ==
  LET calls == << << "disconnect", reply >> >>
  IN IF reply = "raise"
     THEN Handled(except_code, None, dv, calls)
     ELSE IF is_ok(reply)
     THEN LET dv1 == condemn_driver(dv)
              calls1 == Append(calls, << "_condemn_driver", None >>)
          IN IF dv1.driver_pid = None
             THEN Handled(reply, "UNINITIALIZED", dv1, calls1)
             ELSE Handled("AGENT_DEINIT_FAILED", "INACTIVE", dv1, calls1)
     ELSE Handled(reply, None, dv, calls)

state_handler_powered_down(event, dv, env) ==
  CASE event = "ENTER" -> Handled("OK", None, dv, << >>)
    [] event = "EXIT" -> Handled("OK", None, dv, << >>)
    [] OTHER -> Handled("INCORRECT_STATE", None, dv, << >>)

\* Faulty variant: a failed driver start is reported as a success.
state_handler_uninitialized_no_check(event, dv, env) ==
  CASE event = "ENTER" -> Handled("OK", None, dv, << >>)
    [] event = "EXIT" -> Handled("OK", None, dv, << >>)
    [] event = "INITIALIZE" ->
         LET st == start_driver(stop_condemned_drivers(dv), env.sp)
             calls == << << "_stop_condemned_drivers", None >>,
                         << "_start_driver", env.sp >> >>
         IN IF st.raised THEN Raised(st.dv, calls)
            ELSE Handled("OK", "INACTIVE", st.dv, calls)
    [] event = "RESET" -> Handled("OK", "UNINITIALIZED", dv, << >>)
    [] OTHER -> Handled("INCORRECT_STATE", None, dv, << >>)

state_handler_uninitialized(event, dv, env) ==
  CASE event = "ENTER" -> Handled("OK", None, dv, << >>)
    [] event = "EXIT" -> Handled("OK", None, dv, << >>)
    [] event = "INITIALIZE" ->
         LET st == start_driver(stop_condemned_drivers(dv), env.sp)
             calls == << << "_stop_condemned_drivers", None >>,
                         << "_start_driver", env.sp >> >>
         IN IF st.raised THEN Raised(st.dv, calls)
            ELSE IF st.dv.driver_pid # None
            THEN Handled("OK", "INACTIVE", st.dv, calls)
            ELSE Handled("AGENT_INIT_FAILED", None, st.dv, calls)
    [] event = "RESET" -> Handled("OK", "UNINITIALIZED", dv, << >>)
    [] OTHER -> Handled("INCORRECT_STATE", None, dv, << >>)

\* Faulty variant: the connection is attempted whatever configure came back with.
state_handler_inactive_connects(event, dv, env) ==
  CASE event = "ENTER" ->
         Handled("OK", None, dv, << << "get_capabilities", "swallowed" >> >>)
    [] event = "EXIT" -> Handled("OK", None, dv, << >>)
    [] event = "RESET" ->
         LET dv1 == stop_driver(dv)
             calls == << << "_stop_driver", None >> >>
         IN IF dv1.driver_pid = None
            THEN Handled("OK", "UNINITIALIZED", dv1, calls)
            ELSE Handled("AGENT_DEINIT_FAILED", None, dv1, calls)
    [] event = "INITIALIZE" -> Handled("OK", "INACTIVE", dv, << >>)
    [] event = "GO_ACTIVE" ->
         LET c1 == << << "configure", env.r1 >> >>
             c2 == Append(c1, << "connect", env.r2 >>)
         IN IF env.r1 = "raise" THEN Raised(dv, c1)
            ELSE IF env.r2 = "raise"
            THEN Handled("DRIVER_CONNECT_FAILED", None, dv, c2)
            ELSE IF is_ok(env.r2)
            THEN Handled(env.r2, "IDLE", dv, c2)
            ELSE Handled(env.r2, None, dv, c2)
    [] OTHER -> Handled("INCORRECT_STATE", None, dv, << >>)

state_handler_inactive(event, dv, env) ==
  CASE event = "ENTER" ->
         Handled("OK", None, dv, << << "get_capabilities", "swallowed" >> >>)
    [] event = "EXIT" -> Handled("OK", None, dv, << >>)
    [] event = "RESET" ->
         LET dv1 == stop_driver(dv)
             calls == << << "_stop_driver", None >> >>
         IN IF dv1.driver_pid = None
            THEN Handled("OK", "UNINITIALIZED", dv1, calls)
            ELSE Handled("AGENT_DEINIT_FAILED", None, dv1, calls)
    [] event = "INITIALIZE" -> Handled("OK", "INACTIVE", dv, << >>)
    [] event = "GO_ACTIVE" ->
         LET c1 == << << "configure", env.r1 >> >>
             c2 == Append(c1, << "connect", env.r2 >>)
         IN IF env.r1 = "raise" THEN Raised(dv, c1)
            ELSE IF is_ok(env.r1)
            THEN IF env.r2 = "raise"
                 THEN Handled("DRIVER_CONNECT_FAILED", None, dv, c2)
                 ELSE IF is_ok(env.r2)
                 THEN Handled(env.r2, "IDLE", dv, c2)
                 ELSE Handled(env.r2, None, dv, c2)
            ELSE Handled(env.r1, None, dv, c1)
    [] OTHER -> Handled("INCORRECT_STATE", None, dv, << >>)

\* Faulty variant: RESUME leads from STOPPED to DIRECT_ACCESS_MODE.
state_handler_stopped_resume_direct(event, dv, env) ==
  CASE event = "ENTER" -> Handled("OK", None, dv, << >>)
    [] event = "EXIT" -> Handled("OK", None, dv, << >>)
    [] event = "CLEAR" -> Handled("OK", "IDLE", dv, << >>)
    [] event = "RESUME" -> Handled("OK", "DIRECT_ACCESS_MODE", dv, << >>)
    [] event = "GO_INACTIVE" -> go_inactive(dv, env.r1)
    [] event = "RESET" -> reset_connected(dv, env.r1, "DRIVER_CONNECT_FAILED")
    [] OTHER -> Handled("INCORRECT_STATE", None, dv, << >>)

state_handler_stopped(event, dv, env) ==
  CASE event = "ENTER" -> Handled("OK", None, dv, << >>)
    [] event = "EXIT" -> Handled("OK", None, dv, << >>)
    [] event = "CLEAR" -> Handled("OK", "IDLE", dv, << >>)
    [] event = "RESUME" -> Handled("OK", "OBSERVATORY_MODE", dv, << >>)
    [] event = "GO_INACTIVE" -> go_inactive(dv, env.r1)
    [] event = "RESET" -> reset_connected(dv, env.r1, "DRIVER_CONNECT_FAILED")
    [] OTHER -> Handled("INCORRECT_STATE", None, dv, << >>)

\* Faulty variant: PAUSE is taken in IDLE.
state_handler_idle_pauses(event, dv, env) ==
  CASE event = "ENTER" -> Handled("OK", None, dv, << >>)
    [] event = "EXIT" -> Handled("OK", None, dv, << >>)
    [] event = "GO_INACTIVE" -> go_inactive(dv, env.r1)
    [] event = "RESET" -> reset_connected(dv, env.r1, "DRIVER_CONNECT_FAILED")
    [] event = "RUN" -> Handled("OK", "OBSERVATORY_MODE", dv, << >>)
    [] event = "PAUSE" -> Handled("OK", None, dv, << >>)
    [] OTHER -> Handled("INCORRECT_STATE", None, dv, << >>)

state_handler_idle(event, dv, env) ==
  CASE event = "ENTER" -> Handled("OK", None, dv, << >>)
    [] event = "EXIT" -> Handled("OK", None, dv, << >>)
    [] event = "GO_INACTIVE" -> go_inactive(dv, env.r1)
    [] event = "RESET" -> reset_connected(dv, env.r1, "DRIVER_CONNECT_FAILED")
    [] event = "RUN" -> Handled("OK", "OBSERVATORY_MODE", dv, << >>)
    [] OTHER -> Handled("INCORRECT_STATE", None, dv, << >>)

state_handler_observatory_mode(event, dv, env) ==
  CASE event = "ENTER" -> Handled("OK", None, dv, << >>)
    [] event = "EXIT" -> Handled("OK", None, dv, << >>)
    [] event = "CLEAR" -> Handled("OK", "IDLE", dv, << >>)
    [] event = "PAUSE" -> Handled("OK", "STOPPED", dv, << >>)
    [] event = "GO_DIRECT_ACCESS_MODE" ->
         Handled("OK", "DIRECT_ACCESS_MODE", dv, << >>)
    [] event = "GO_INACTIVE" -> go_inactive(dv, env.r1)
    [] event = "RESET" ->
         reset_connected(dv, env.r1, "DRIVER_DISCONNECT_FAILED")
    [] OTHER -> Handled("INCORRECT_STATE", None, dv, << >>)

\* ENTER launches the serial port emulator, which answers NOT_IMPLEMENTED.
state_handler_direct_access_mode(event, dv, env) ==
  CASE event = "ENTER" -> Handled("NOT_IMPLEMENTED", None, dv, << >>)
    [] event = "EXIT" -> Handled("OK", None, dv, << >>)
    [] event = "GO_OBSERVATORY_MODE" ->
         Handled("OK", "OBSERVATORY_MODE", dv, << >>)
    [] event = "GO_INACTIVE" -> go_inactive(dv, env.r1)
    [] event = "RESET" -> reset_connected(dv, env.r1, "DRIVER_CONNECT_FAILED")
    [] OTHER -> Handled("INCORRECT_STATE", None, dv, << >>)

\* self._state_handlers[state](event, params)
state_handlers(state, event, dv, env) ==
  CASE state = "POWERED_DOWN" -> state_handler_powered_down(event, dv, env)
    [] state = "UNINITIALIZED" -> state_handler_uninitialized(event, dv, env)
    [] state = "INACTIVE" -> state_handler_inactive(event, dv, env)
    [] state = "STOPPED" -> state_handler_stopped(event, dv, env)
    [] state = "IDLE" -> state_handler_idle(event, dv, env)
    [] state = "OBSERVATORY_MODE" ->
         state_handler_observatory_mode(event, dv, env)
    [] state = "DIRECT_ACCESS_MODE" ->
         state_handler_direct_access_mode(event, dv, env)

\* InstrumentFSM.on_event_async(event): the handler of the current state
\* takes the event; a next state that differs from the current one is
\* entered through the EXIT and ENTER handlers, and an error of the ENTER
\* handler replaces the result of the event.
on_event_async(state, event, dv, env) ==
  LET h == state_handlers(state, event, dv, env)
  IN IF h.success = "raise"
     THEN [ state |-> state, dv |-> h.dv, success |-> "raise",
            calls |-> h.calls ]
     ELSE IF h.next_state # None /\ h.next_state # state
     THEN LET x == state_handlers(state, "EXIT", h.dv, env)
              e == state_handlers(h.next_state, "ENTER", x.dv, env)
          IN [ state |-> h.next_state, dv |-> e.dv,
               success |-> IF is_error(e.success) THEN e.success
                           ELSE h.success,
               calls |-> h.calls \o x.calls \o e.calls ]
     ELSE [ state |-> state, dv |-> h.dv, success |-> h.success,
            calls |-> h.calls ]

\* Faulty variant: the hosting process hands a message to its handler while
\* the handler of an earlier message is suspended.
accepts_operation_always == TRUE

\* Message dispatch of the hosting process: a protected operation is taken
\* up when the previous one has been processed to completion.
accepts_operation == op.pc = "idle"

\* Tokens are reserved for the queued requests, so that a handover never
\* runs out of uuid4 values within the bound.
TokensLeft == next_uuid + Len(pending_transactions) <= MaxTrans

\* The token a caller can hold that is worth presenting: the current one.
CurrentToken == IF transaction_id = None THEN {} ELSE { transaction_id }

Init ==
  /\ transaction_id = None
  /\ transaction_timed_out = FALSE
  /\ transaction_timeout_call = NoCall
  /\ pending_transactions = << >>
  /\ in_protected_function = FALSE
  /\ limits = [ max_acq_timeout |-> INIT_MAX_ACQ_TIMEOUT,
                min_exp_timeout |-> INIT_MIN_EXP_TIMEOUT,
                default_exp_timeout |-> INIT_DEFAULT_EXP_TIMEOUT,
                max_exp_timeout |-> INIT_MAX_EXP_TIMEOUT ]
  /\ reactor = {}
  /\ deferreds = [d \in {} |-> << >>]
  /\ next_uuid = 1
  /\ next_d = 1
  /\ ended_transactions = {}
  /\ fsm_state \in { "INACTIVE", "OBSERVATORY_MODE" }
  /\ driver_pid = PidPool[1]
  /\ driver_client = PidPool[1]
  /\ condemned_drivers = << >>
  /\ child_procs = << PidPool[1] >>
  /\ next_pid = 2
  /\ shut_down = << >>
  /\ op = NoOp
  /\ protected_calls = 0
  /\ fsm_events = 0
  /\ kvs = EmptyDict
  /\ indices = [ name \in IndexedAttributes |-> EmptyDict ]
  /\ last = [act |-> "init"]

\* The agent after plc_init: the state machine is started in UNINITIALIZED
\* and there is no driver.
InitFSM ==
  /\ transaction_id = None
  /\ transaction_timed_out = FALSE
  /\ transaction_timeout_call = NoCall
  /\ pending_transactions = << >>
  /\ in_protected_function = FALSE
  /\ limits = [ max_acq_timeout |-> INIT_MAX_ACQ_TIMEOUT,
                min_exp_timeout |-> INIT_MIN_EXP_TIMEOUT,
                default_exp_timeout |-> INIT_DEFAULT_EXP_TIMEOUT,
                max_exp_timeout |-> INIT_MAX_EXP_TIMEOUT ]
  /\ reactor = {}
  /\ deferreds = [d \in {} |-> << >>]
  /\ next_uuid = 1
  /\ next_d = 1
  /\ ended_transactions = {}
  /\ fsm_state = "UNINITIALIZED"
  /\ driver_pid = None
  /\ driver_client = None
  /\ condemned_drivers = << >>
  /\ child_procs = << >>
  /\ next_pid = 1
  /\ shut_down = << >>
  /\ op = NoOp
  /\ protected_calls = 0
  /\ fsm_events = 0
  /\ kvs = EmptyDict
  /\ indices = [ name \in IndexedAttributes |-> EmptyDict ]
  /\ last = [act |-> "init"]

\* op_start_transaction: _request_transaction(acq, exp, sender).
RequestTransaction(acq_timeout, exp_timeout, requester) ==
  LET d == DeferredPool[next_d]
  IN /\ next_d <= MaxReq
     /\ (transaction_id = None \/ ClampAcq(Agent, acq_timeout) # 0) => TokensLeft
     /\ Store(request_transaction(Agent, acq_timeout, exp_timeout, requester, d))
     /\ next_d' = next_d + 1
     /\ last' = [ act |-> "request_transaction", d |-> d,
                  acq_timeout |-> acq_timeout ]
     /\ UNCHANGED << store_vars, fsm_state, driver_vars, op, call_vars >>

\* op_end_transaction: _end_transaction(content) with the caller's token.
EndTransaction(tid) ==
  LET r == end_transaction(Agent, tid)
  IN /\ Store(r.s)
     /\ last' = [ act |-> "end_transaction", tid |-> tid, success |-> r.success ]
     /\ UNCHANGED << store_vars, next_d, fsm_state, driver_vars, op, call_vars >>

\* The reactor runs a pending acquisition_timeout call.
AcquisitionTimeoutFires(call) ==
  /\ call \in reactor
  /\ call.func = "acquisition_timeout"
  /\ Store(acquisition_timeout([Agent EXCEPT !.reactor = @ \ {call}], call.key))
  /\ last' = [ act |-> "acquisition_timeout", d |-> call.key ]
  /\ UNCHANGED << store_vars, next_d, fsm_state, driver_vars, op, call_vars >>

\* The reactor runs a pending transaction_expired call.
TransactionExpires(call) ==
  /\ call \in reactor
  /\ call.func = "transaction_expired"
  /\ LET r == transaction_expired([Agent EXCEPT !.reactor = @ \ {call}])
     IN /\ Store(r.s)
        /\ last' = [ act |-> "transaction_expired", tid |-> call.key,
                     success |-> r.success ]
  /\ UNCHANGED << store_vars, next_d, fsm_state, driver_vars, op, call_vars >>

\* Faulty variant: the handler begins without marking the agent.
enter_protected_unmarked(s) == s

\* "self._in_protected_function = True", the first statement of a handler.
enter_protected(s) == [s EXCEPT !.in_protected_function = TRUE]

\* A handler from its first line to its first suspension: the flag is set,
\* the transaction verified and the agent state checked.
OpBegin(name, tid) ==
  LET s1 == enter_protected(Agent)
      v == verify_transaction(s1, tid, optype(name))
  IN /\ accepts_operation
     /\ (tid = "create" /\ transaction_id = None) => TokensLeft
     /\ Store(v.s)
     /\ op' = IF is_error(v.success)
              THEN [ pc |-> "verify_failed", name |-> name, tid |-> tid,
                     success |-> v.success, reply_tid |-> None,
                     event |-> None,
                     announced |-> verify_announces(v.success) ]
              ELSE IF fsm_state \notin allowed_states(name)
              THEN [ pc |-> "state_failed", name |-> name, tid |-> tid,
                     success |-> "INCORRECT_STATE",
                     reply_tid |-> v.s.transaction_id, event |-> None,
                     announced |-> verify_announces(v.success) ]
              ELSE [ pc |-> "body", name |-> name, tid |-> tid,
                     success |-> None, reply_tid |-> v.s.transaction_id,
                     event |-> None,
                     announced |-> verify_announces(v.success) ]
     /\ last' = [ act |-> "op_begin", name |-> name, tid |-> tid,
                  success |-> v.success,
                  called |-> IF is_ok(v.success)
                                  /\ fsm_state \in allowed_states(name)
                             THEN driver_method(name) ELSE None ]
     /\ protected_calls' = protected_calls + 1
     /\ UNCHANGED << store_vars, next_d, fsm_state, driver_vars, fsm_events >>

\* The early "yield self.reply_ok(msg, reply); return" of a handler after a
\* failed verification or state check.
OpReturnEarly ==
  /\ op.pc \in { "verify_failed", "state_failed" }
  /\ op' = NoOp
  /\ last' = [ act |-> "op_reply", name |-> op.name, tid |-> op.tid,
               success |-> op.success, path |-> op.pc, replied |-> TRUE,
               announced |-> op.announced ]
  /\ protected_calls' = protected_calls - 1
  /\ UNCHANGED << store_vars, transaction_id, transaction_timed_out,
                  transaction_timeout_call, pending_transactions,
                  in_protected_function, limits, reactor, deferreds, next_uuid,
                  next_d, ended_transactions, fsm_state, driver_vars,
                  fsm_events >>

\* The body resumes from its suspension and ends with an error code or an
\* exception: the finally clause suspends in the error announcement.
OpBodyFails(success) ==
  /\ op.pc = "body"
  /\ op' = [op EXCEPT !.pc = "publish", !.success = success,
                       !.announced = TRUE]
  /\ last' = [ act |-> "op_body", name |-> op.name, success |-> success ]
  /\ UNCHANGED << store_vars, transaction_id, transaction_timed_out,
                  transaction_timeout_call, pending_transactions,
                  in_protected_function, limits, reactor, deferreds, next_uuid,
                  next_d, ended_transactions, fsm_state, driver_vars,
                  call_vars >>

\* The body of op_execute_observatory with a TRANSITION command: the event
\* is given to the state machine, and the handler of the current state
\* suspends in its first "yield".
OpTransitionDispatch(event) ==
  /\ op.pc = "body"
  /\ op.name = "op_execute_observatory"
  /\ op' = [op EXCEPT !.pc = "fsm", !.event = event]
  /\ fsm_events' = fsm_events + 1
  /\ last' = [ act |-> "dispatch", event |-> event ]
  /\ UNCHANGED << store_vars, transaction_id, transaction_timed_out,
                  transaction_timeout_call, pending_transactions,
                  in_protected_function, limits, reactor, deferreds, next_uuid,
                  next_d, ended_transactions, fsm_state, driver_vars,
                  protected_calls >>

\* The handlers of the state machine run to their end, through the EXIT and
\* ENTER handlers of a change of state.
OpTransition(event, env) ==
  /\ op.pc = "fsm"
  /\ op.event = event
  /\ (fsm_state = "UNINITIALIZED" /\ event = "INITIALIZE")
       => next_pid <= MaxSpawn
  /\ LET r == on_event_async(fsm_state, event, Driver, env)
     IN /\ fsm_state' = r.state
        /\ StoreDriver(r.dv)
        /\ op' = [op EXCEPT !.pc = IF is_ok(r.success) THEN "fsm_done"
                                   ELSE "publish",
                            !.success = r.success, !.event = None,
                            !.announced = ~ is_ok(r.success)]
        /\ last' = [ act |-> "transition", event |-> event,
                     from |-> fsm_state, success |-> r.success,
                     calls |-> r.calls ]
  /\ fsm_events' = fsm_events - 1
  /\ UNCHANGED << store_vars, transaction_id, transaction_timed_out,
                  transaction_timeout_call, pending_transactions,
                  in_protected_function, limits, reactor, deferreds, next_uuid,
                  next_d, ended_transactions, protected_calls >>

\* The finally clause cleans up and the handler replies: after a body that
\* ended OK, or after the error announcement. An exception of the body is
\* re-raised after the clause and an exception of the clause leaves it: no
\* reply is sent then.
OpFinish ==
  /\ op.pc \in { "body", "fsm_done", "publish" }
  /\ LET success == IF op.pc = "body" THEN "OK" ELSE op.success
         r == op_cleanup(Agent, op.tid)
     IN /\ Store(r.s)
        /\ last' = [ act |-> "op_reply", name |-> op.name, tid |-> op.tid,
                     success |-> success, path |-> "finally",
                     replied |-> (success # "raise" /\ ~ r.raised),
                     announced |-> op.announced ]
  /\ op' = NoOp
  /\ protected_calls' = protected_calls - 1
  /\ UNCHANGED << store_vars, next_d, fsm_state, driver_vars, fsm_events >>

ExpInputs == { NoneInt, 5000 }
AcqInputs == { NoneInt, 0, 100 }
Requesters == { "client" }
EndTokens == { "", ForgedToken } \cup CurrentToken
OpTokens == { "create", "none", "bad", ForgedToken } \cup CurrentToken
OpNames == { "op_execute_observatory", "op_get_device", "op_set_device" }
BodyFailures == { "DRIVER_ERROR", "raise" }

Next ==
  \/ \E acq \in AcqInputs, exp \in ExpInputs, r \in Requesters :
       RequestTransaction(acq, exp, r)
  \/ \E tid \in EndTokens : EndTransaction(tid)
  \/ \E call \in reactor : AcquisitionTimeoutFires(call)
  \/ \E call \in reactor : TransactionExpires(call)
  \/ \E name \in OpNames, tid \in OpTokens : OpBegin(name, tid)
  \/ OpReturnEarly
  \/ \E success \in BodyFailures : OpBodyFails(success)
  \/ OpFinish

Spec == Init /\ [][Next]_vars

\* The agent driven through its state machine by a caller that takes a
\* transaction and sends TRANSITION commands and device operations.
FsmOpNames ==
  { "op_execute_observatory", "op_execute_device", "op_get_device",
    "op_set_device", "op_execute_device_direct" }
FsmOpTokens == { "create", "none" } \cup CurrentToken

\* The environment of one event: the outcome of the driver start, and the
\* outcomes of the first and the second call of the driver client.
TransitionEnvs ==
  { [ sp |-> sp, r1 |-> "OK", r2 |-> "OK" ] : sp \in SpawnOutcomes }
    \cup { [ sp |-> "ok", r1 |-> r1, r2 |-> r2 ] :
             r1 \in DriverReplies, r2 \in DriverReplies }

NextFSM ==
  \/ transaction_id = None /\ RequestTransaction(NoneInt, NoneInt, "client")
  \/ \E call \in reactor : TransactionExpires(call)
  \/ \E name \in FsmOpNames, tid \in FsmOpTokens : OpBegin(name, tid)
  \/ OpReturnEarly
  \/ \E event \in AgentEvents : OpTransitionDispatch(event)
  \/ \E event \in AgentEvents, env \in TransitionEnvs :
       OpTransition(event, env)
  \/ OpFinish

SpecFSM == InitFSM /\ [][NextFSM]_vars

\* The reactor runs every pending call in the end, and a handler that is
\* suspended resumes in the end; calls from outside may stop at any time.
FairSpec ==
  /\ Spec
  /\ WF_vars(\E call \in reactor : TransactionExpires(call))
  /\ WF_vars(\E call \in reactor : AcquisitionTimeoutFires(call))
  /\ WF_vars(OpReturnEarly)
  /\ WF_vars(OpFinish)

\* The loop body of op_set_observatory for the three timeout parameters: the
\* value is stored when it passes the test of its branch.
TimeoutParameters ==
  { "MAX_ACQ_TIMEOUT", "DEFAULT_EXP_TIMEOUT", "MAX_EXP_TIMEOUT" }

set_observatory_param(s, arg, val) ==
  CASE arg = "MAX_ACQ_TIMEOUT" ->
         IF val >= 0
         THEN [ s |-> [s EXCEPT !.limits.max_acq_timeout = val],
                result |-> "OK" ]
         ELSE [ s |-> s, result |-> "INVALID_PARAM_VALUE" ]
    [] arg = "DEFAULT_EXP_TIMEOUT" ->
         IF val >= s.limits.min_exp_timeout /\ val <= s.limits.max_exp_timeout
         THEN [ s |-> [s EXCEPT !.limits.default_exp_timeout = val],
                result |-> "OK" ]
         ELSE [ s |-> s, result |-> "INVALID_PARAM_VALUE" ]
    [] arg = "MAX_EXP_TIMEOUT" ->
         IF val > s.limits.min_exp_timeout
         THEN [ s |-> [s EXCEPT !.limits.max_exp_timeout = val],
                result |-> "OK" ]
         ELSE [ s |-> s, result |-> "INVALID_PARAM_VALUE" ]

\* One parameter of the params dict of op_set_observatory is handled.
OpSetParam(arg, val) ==
  /\ op.pc = "body"
  /\ op.name = "op_set_observatory"
  /\ LET r == set_observatory_param(Agent, arg, val)
     IN /\ Store(r.s)
        /\ last' = [ act |-> "set_param", arg |-> arg ]
  /\ UNCHANGED << store_vars, next_d, fsm_state, driver_vars, op, call_vars >>

\* The agent with a caller that changes the timeout limits while
\* transactions are requested, handed over and ended.
LimitValues == { 0, 2 }
LimitExpInputs == { NoneInt, 0, 5000 }
LimitAcqInputs == { NoneInt, 100 }

NextLimits ==
  \/ \E acq \in LimitAcqInputs, exp \in LimitExpInputs :
       RequestTransaction(acq, exp, "client")
  \/ \E tid \in CurrentToken : EndTransaction(tid)
  \/ \E tid \in { "create" } \cup CurrentToken :
       OpBegin("op_set_observatory", tid)
  \/ OpReturnEarly
  \/ \E arg \in TimeoutParameters, val \in LimitValues : OpSetParam(arg, val)
  \/ OpFinish

InitLimits == Init /\ fsm_state = "INACTIVE"

SpecLimits == InitLimits /\ [][NextLimits]_vars

\* The driver lifecycle methods called one at a time, in any order, as the
\* state handlers call them; a driver is started only when none is active.
OtherThanDriver ==
  << transaction_id, transaction_timed_out, transaction_timeout_call,
     pending_transactions, in_protected_function, limits, reactor,
     deferreds, next_uuid, next_d, ended_transactions, fsm_state, op,
     call_vars >>

StartDriver(sp) ==
  /\ driver_pid = None
  /\ next_pid <= MaxDrivers
  /\ LET r == start_driver(Driver, sp)
     IN /\ StoreDriver(r.dv)
        /\ last' = [ act |-> "start_driver", sp |-> sp,
                     raised |-> r.raised ]
  /\ UNCHANGED << OtherThanDriver, store_vars >>

CondemnDriver ==
  /\ StoreDriver(condemn_driver(Driver))
  /\ last' = [ act |-> "condemn_driver" ]
  /\ UNCHANGED << OtherThanDriver, store_vars >>

StopCondemnedDrivers ==
  /\ StoreDriver(stop_condemned_drivers(Driver))
  /\ last' = [ act |-> "stop_condemned_drivers" ]
  /\ UNCHANGED << OtherThanDriver, store_vars >>

StopDriver ==
  /\ StoreDriver(stop_driver(Driver))
  /\ last' = [ act |-> "stop_driver" ]
  /\ UNCHANGED << OtherThanDriver, store_vars >>

NextDriver ==
  \/ \E sp \in SpawnOutcomes : StartDriver(sp)
  \/ CondemnDriver
  \/ StopCondemnedDrivers
  \/ StopDriver

SpecDriver == InitFSM /\ [][NextDriver]_vars

\* The calls of a client of the store, in any order.
Put(key, value, index_attributes) ==
  /\ StoreBack(put(IndexStore, key, value, index_attributes))
  /\ last' = [ act |-> "put", key |-> key, value |-> value ]
  /\ UNCHANGED << OtherThanDriver, driver_vars >>

Remove(key) ==
  /\ StoreBack(remove(IndexStore, key))
  /\ last' = [ act |-> "remove", key |-> key ]
  /\ UNCHANGED << OtherThanDriver, driver_vars >>

UpdateIndex(key, index_attributes) ==
  LET r == update_index(IndexStore, key, index_attributes)
  IN /\ StoreBack(r.st)
     /\ last' = [ act |-> "update_index", key |-> key ]
     /\ UNCHANGED << OtherThanDriver, driver_vars >>

NextStore ==
  \/ \E key \in StoreKeys, value \in StoreValues,
         index_attributes \in IndexAttributeDicts :
       Put(key, value, index_attributes)
  \/ \E key \in StoreKeys : Remove(key)
  \/ \E key \in StoreKeys, index_attributes \in IndexAttributeDicts :
       UpdateIndex(key, index_attributes)

SpecStore == InitFSM /\ [][NextStore]_vars

\* ------------------------------------------------------------------ claims
GeneratedTokens == { uuid4(i) : i \in 1 .. (next_uuid - 1) }

\* The tokens that were granted and that _end_transaction has not ended.
LiveTokens == GeneratedTokens \ ended_transactions

\* The position of deferred d in the order of arrival of the requests.
DIndex(d) == CHOOSE i \in 1 .. Len(DeferredPool) : DeferredPool[i] = d

Resolved(defs, d) == d \in DOMAIN defs /\ Len(defs[d]) > 0
GrantedIn(defs, d) == Resolved(defs, d) /\ defs[d][1][1] = "OK"
QueuePositions(d) ==
  { i \in 1 .. Len(pending_transactions) : pending_transactions[i].d = d }
AcqPending(d) ==
  \E c \in reactor : c.func = "acquisition_timeout" /\ c.key = d

\* C1: mutual exclusion. In every reachable state at most one granted token
\* is live (granted and not yet ended), the live token is the current one,
\* and every token handed to a requester is one the agent generated; so no
\* token is granted while an earlier one is still live.
C1_MutualExclusion ==
  /\ Cardinality(LiveTokens) <= 1
  /\ LiveTokens = CurrentToken
  /\ \A d \in DOMAIN deferreds :
       GrantedIn(deferreds, d) => deferreds[d][1][2] \in GeneratedTokens

\* A second token is current after the first was ended, with a waiter queued.
C1_Witness ==
  /\ next_uuid = 3
  /\ transaction_id = uuid4(2)
  /\ uuid4(1) \in ended_transactions
  /\ Len(pending_transactions) > 0

\* C2: FIFO grant order. A queued waiter is granted only from the head of the
\* queue; when the current transaction is ended while requests are queued the
\* head is granted the new current token and the others stay queued in
\* order; the queue is always in order of arrival.
C2_FifoGrant ==
  [][ /\ \A i \in 1 .. Len(pending_transactions) :
           GrantedIn(deferreds', pending_transactions[i].d) => i = 1
      /\ ( /\ transaction_id # None
           /\ transaction_id \in ended_transactions'
           /\ pending_transactions # << >> )
         => /\ deferreds'[pending_transactions[1].d]
                 = << << "OK", transaction_id' >> >>
            /\ pending_transactions' = Tail(pending_transactions)
      /\ \A i, j \in 1 .. Len(pending_transactions') :
           i < j => DIndex(pending_transactions'[i].d)
                      < DIndex(pending_transactions'[j].d)
    ]_vars

\* Two waiters were queued and one release granted the first; the second
\* is still queued.
C2_Witness ==
  /\ last.act = "end_transaction"
  /\ last.success = "OK"
  /\ Len(pending_transactions) = 1
  /\ pending_transactions[1].d = "d3"
  /\ GrantedIn(deferreds, "d2")
  /\ transaction_id = deferreds["d2"][1][2]

\* C3: exactly-once resolution. No deferred is called back twice; a resolved
\* request is not in the queue and has no acquisition timer pending; an
\* unresolved one is in the queue once with its timer pending; and a queued
\* request is resolved with (OK, current token) or (TIMEOUT, None) only.
C3_State ==
  \A d \in DOMAIN deferreds :
    /\ Len(deferreds[d]) <= 1
    /\ Len(deferreds[d]) = 1 => QueuePositions(d) = {} /\ ~ AcqPending(d)
    /\ Len(deferreds[d]) = 0 =>
         Cardinality(QueuePositions(d)) = 1 /\ AcqPending(d)

C3_Step ==
  \A i \in 1 .. Len(pending_transactions) :
    LET d == pending_transactions[i].d
    IN Resolved(deferreds', d) =>
         deferreds'[d] \in { << << "OK", transaction_id' >> >>,
                             << << "TIMEOUT", None >> >> }

C3_ExactlyOnce == [] C3_State /\ [][C3_Step]_vars

\* One queued request timed out and another queued request was granted by
\* the release of the transaction.
C3_Witness ==
  /\ last.act = "end_transaction"
  /\ last.success = "OK"
  /\ \E d \in DOMAIN deferreds : deferreds[d] = << << "TIMEOUT", None >> >>
  /\ \E d \in DOMAIN deferreds :
       /\ DIndex(d) >= 2
       /\ deferreds[d] = << << "OK", transaction_id >> >>

\* C4: a request with acquisition timeout 0 or None while a transaction is
\* current is resolved at once with (LOCKED_RESOURCE, None); the queue, the
\* reactor and the current transaction with its timer are unchanged.
C4_NoWaitLocked ==
  [][ ( /\ last'.act = "request_transaction"
        /\ last'.acq_timeout \in { 0, NoneInt }
        /\ transaction_id # None )
      => /\ deferreds'[last'.d] = << << "LOCKED_RESOURCE", None >> >>
         /\ pending_transactions' = pending_transactions
         /\ reactor' = reactor
         /\ transaction_id' = transaction_id
         /\ transaction_timeout_call' = transaction_timeout_call
         /\ transaction_timed_out' = transaction_timed_out
         /\ ended_transactions' = ended_transactions
    ]_vars

\* An unspecified acquisition timeout was refused while the lock was held.
C4_Witness ==
  /\ last.act = "request_transaction"
  /\ last.acq_timeout = NoneInt
  /\ transaction_id # None
  /\ deferreds[last.d] = << << "LOCKED_RESOURCE", None >> >>

\* C5: when the expiration timer of a transaction fires while no protected
\* operation is in progress, the transaction is ended in that step: the lock
\* is free, or handed to the head of the queue.
C5_ExpiryEndsTransaction ==
  [][ ( /\ last'.act = "transaction_expired"
        /\ op.pc = "idle" )
      => /\ last'.tid \in ended_transactions'
         /\ transaction_id' # last'.tid
         /\ pending_transactions = << >> => transaction_id' = None
         /\ pending_transactions # << >> =>
              deferreds'[pending_transactions[1].d]
                = << << "OK", transaction_id' >> >>
    ]_vars

\* C6: when the expiration timer fires while a protected operation is in
\* progress the transaction stays current and the expiry is deferred; as
\* long as that operation is in progress (and nobody ends the transaction
\* with its token) the transaction stays current and no request is granted;
\* and when the operation completes, the transaction has been ended.
C6_DeferredExpiry ==
  [][ /\ ( /\ last'.act = "transaction_expired"
           /\ op.pc # "idle" )
         => /\ transaction_id' = transaction_id
            /\ transaction_id' = last'.tid
            /\ transaction_timed_out'
      /\ ( /\ op.pc # "idle"
           /\ transaction_timed_out
           /\ op' # NoOp
           /\ last'.act # "end_transaction" )
         => /\ transaction_id' = transaction_id
            /\ \A d \in DOMAIN deferreds' :
                 GrantedIn(deferreds', d) => GrantedIn(deferreds, d)
      /\ ( /\ op.pc # "idle"
           /\ transaction_timed_out
           /\ op' = NoOp )
         => transaction_id \in ended_transactions'
    ]_vars

\* C7: every granted transaction is ended in the end, when timers fire and
\* suspended handlers resume, whatever the callers do or fail to do.
C7_AbandonedLockRecovered ==
  \A i \in 1 .. MaxTrans :
    (transaction_id = uuid4(i)) ~> (transaction_id # uuid4(i))

\* C8: _end_transaction with the current token returns OK, cancels the
\* expiration timer and ends the transaction; with an empty queue nothing is
\* current afterwards; otherwise the head leaves the queue, its acquisition
\* timer is cancelled, a fresh token becomes current with an expiration
\* timer of the head's timeout, and the head is called back with it.
C8_EndCurrent ==
  [][ ( /\ last'.act = "end_transaction"
        /\ last'.tid = transaction_id )
      => /\ last'.success = "OK"
         /\ transaction_timeout_call \notin reactor'
         /\ transaction_id \in ended_transactions'
         /\ transaction_timed_out' = FALSE
         /\ IF pending_transactions = << >>
            THEN /\ transaction_id' = None
                 /\ transaction_timeout_call' = NoCall
                 /\ pending_transactions' = << >>
                 /\ deferreds' = deferreds
            ELSE LET head == pending_transactions[1]
                 IN /\ pending_transactions' = Tail(pending_transactions)
                    /\ head.call \notin reactor'
                    /\ transaction_id' = uuid4(next_uuid)
                    /\ transaction_id' \notin GeneratedTokens
                    /\ transaction_timeout_call'
                         = ExpCall(transaction_id', head.exp_timeout)
                    /\ transaction_timeout_call' \in reactor'
                    /\ deferreds' = [deferreds EXCEPT ![head.d] =
                                       << << "OK", transaction_id' >> >>]
    ]_vars

\* C8 (amended): as above, but the expiration timer of the fresh token is
\* armed with the head's timeout clamped into the expiration limits that
\* are in force at the handover, which op_set_observatory may have changed
\* since the head was queued.
C8_EndCurrentClamped ==
  [][ ( /\ last'.act = "end_transaction"
        /\ last'.tid = transaction_id )
      => /\ last'.success = "OK"
         /\ transaction_timeout_call \notin reactor'
         /\ transaction_id \in ended_transactions'
         /\ transaction_timed_out' = FALSE
         /\ IF pending_transactions = << >>
            THEN /\ transaction_id' = None
                 /\ transaction_timeout_call' = NoCall
                 /\ pending_transactions' = << >>
                 /\ deferreds' = deferreds
            ELSE LET head == pending_transactions[1]
                     exp == IF head.exp_timeout > limits.max_exp_timeout
                            THEN limits.max_exp_timeout
                            ELSE IF head.exp_timeout < limits.min_exp_timeout
                            THEN limits.min_exp_timeout
                            ELSE head.exp_timeout
                 IN /\ pending_transactions' = Tail(pending_transactions)
                    /\ head.call \notin reactor'
                    /\ transaction_id' = uuid4(next_uuid)
                    /\ transaction_id' \notin GeneratedTokens
                    /\ transaction_timeout_call'
                         = ExpCall(transaction_id', exp)
                    /\ transaction_timeout_call' \in reactor'
                    /\ deferreds' = [deferreds EXCEPT ![head.d] =
                                       << << "OK", transaction_id' >> >>]
    ]_vars

\* A release handed the lock to a waiter after the maximum expiration
\* timeout had been lowered: the waiter's timer is armed with the new
\* maximum.
C8_Witness ==
  /\ last.act = "end_transaction"
  /\ last.success = "OK"
  /\ last.tid = uuid4(1)
  /\ transaction_id = uuid4(2)
  /\ limits.max_exp_timeout < INIT_DEFAULT_EXP_TIMEOUT
  /\ limits.default_exp_timeout = INIT_DEFAULT_EXP_TIMEOUT
  /\ transaction_timeout_call = ExpCall(uuid4(2), limits.max_exp_timeout)
  /\ "d2" \in DOMAIN deferreds
  /\ deferreds["d2"] = << << "OK", uuid4(2) >> >>

\* C9: _end_transaction with a token that is not the current one changes
\* nothing and returns LOCKED_RESOURCE when a transaction is current and
\* RESOURCE_NOT_LOCKED when none is.
C9_EndNotCurrent ==
  [][ ( /\ last'.act = "end_transaction"
        /\ last'.tid # transaction_id )
      => /\ UNCHANGED << transaction_id, transaction_timed_out,
                         transaction_timeout_call, pending_transactions,
                         in_protected_function, reactor, deferreds,
                         next_uuid, ended_transactions >>
         /\ transaction_id # None => last'.success = "LOCKED_RESOURCE"
         /\ transaction_id = None => last'.success = "RESOURCE_NOT_LOCKED"
    ]_vars

\* The empty token was refused while a transaction was current, with a
\* waiter queued and its expiry deferred.
C9_Witness ==
  /\ last.act = "end_transaction"
  /\ last.tid = ""
  /\ last.success = "LOCKED_RESOURCE"
  /\ transaction_id # None
  /\ pending_transactions # << >>
  /\ transaction_timed_out

\* C10: _verify_transaction with "create" makes a fresh token current with
\* an expiration timer of the default timeout and returns OK when nothing is
\* current; it returns LOCKED_RESOURCE and leaves the transaction, its
\* timer and the queue alone when a transaction is current; the request is
\* never queued.
C10_VerifyCreate ==
  [][ ( /\ last'.act = "op_begin"
        /\ last'.tid = "create" )
      => /\ pending_transactions' = pending_transactions
         /\ deferreds' = deferreds
         /\ IF transaction_id = None
            THEN /\ last'.success = "OK"
                 /\ transaction_id' = uuid4(next_uuid)
                 /\ transaction_id' \notin GeneratedTokens
                 /\ transaction_timeout_call'
                      = ExpCall(transaction_id', limits.default_exp_timeout)
                 /\ reactor' = reactor \cup { transaction_timeout_call' }
                 /\ op'.pc \in { "body", "state_failed" }
            ELSE /\ last'.success = "LOCKED_RESOURCE"
                 /\ op'.pc = "verify_failed"
                 /\ UNCHANGED << transaction_id, transaction_timed_out,
                                 transaction_timeout_call, reactor,
                                 next_uuid, ended_transactions >>
    ]_vars

\* C11: _verify_transaction with a token other than "create" changes no
\* transaction state and returns INVALID_TRANSACTION_ID for a token that is
\* neither "none" nor 36 characters long, whatever the lock state; OK for
\* "none" only when no transaction is current and the operation is a get;
\* OK for the current token; LOCKED_RESOURCE in every other case.
C11_VerifyToken ==
  [][ ( /\ last'.act = "op_begin"
        /\ last'.tid # "create" )
      => /\ UNCHANGED << transaction_id, transaction_timed_out,
                         transaction_timeout_call, pending_transactions,
                         limits, reactor, deferreds, next_uuid,
                         ended_transactions >>
         /\ last'.success =
              IF last'.tid # "none" /\ Len(last'.tid) # 36
              THEN "INVALID_TRANSACTION_ID"
              ELSE IF last'.tid = "none"
              THEN IF transaction_id = None /\ optype(last'.name) = "get"
                   THEN "OK" ELSE "LOCKED_RESOURCE"
              ELSE IF last'.tid = transaction_id
              THEN "OK" ELSE "LOCKED_RESOURCE"
    ]_vars

\* The token "none" was refused for a set operation although no transaction
\* was current.
C11_Witness ==
  /\ last.act = "op_begin"
  /\ last.tid = "none"
  /\ last.name = "op_set_device"
  /\ last.success = "LOCKED_RESOURCE"
  /\ transaction_id = None
  /\ op.pc = "verify_failed"

\* C12: when a protected operation has ended, whether verification failed,
\* the state check failed, the body succeeded or the body raised, the
\* _in_protected_function flag and the _transaction_timed_out flag are
\* both False.
C12_FlagsClearedAfterOperation ==
  last.act = "op_reply"
    => /\ in_protected_function = FALSE
       /\ transaction_timed_out = FALSE

\* C13: an implicit transaction granted to an operation called with
\* "create" is no longer current when the operation has ended, whether it
\* succeeded, was refused with INCORRECT_STATE or failed in its body.
C13_ImplicitTransactionEnded ==
  [][ ( /\ last'.act = "op_reply"
        /\ op.tid = "create"
        /\ op.pc \in { "state_failed", "body", "publish" } )
      => /\ transaction_id' # op.reply_tid
         /\ op.reply_tid \in ended_transactions'
    ]_vars

\* C14: every protected operation that was taken up ends with one reply to
\* its caller, and a body that raised an unanticipated exception is replied
\* to with UNKNOWN_ERROR.
C14_AlwaysReplies ==
  [][ last'.act = "op_reply"
      => /\ last'.replied
         /\ op.success = "raise" => last'.success = "UNKNOWN_ERROR"
    ]_vars

\* The device operations and, from the handlers' state checks, the agent
\* states each of them is legal in.
DeviceOps ==
  { "op_execute_device", "op_get_device", "op_set_device",
    "op_execute_device_direct" }
LegalStates(name) ==
  CASE name = "op_execute_device" -> { "OBSERVATORY_MODE" }
    [] name = "op_set_device" -> { "OBSERVATORY_MODE" }
    [] name = "op_get_device" -> { "OBSERVATORY_MODE", "IDLE", "STOPPED" }
    [] name = "op_execute_device_direct" -> { "DIRECT_ACCESS_MODE" }

\* C15: a device operation whose transaction was verified calls the driver
\* client exactly when the agent is in a state the operation is legal in:
\* OBSERVATORY_MODE for op_execute_device and op_set_device, OBSERVATORY_MODE,
\* IDLE or STOPPED for op_get_device, DIRECT_ACCESS_MODE for
\* op_execute_device_direct; in every other state the reply is
\* INCORRECT_STATE and the driver client is not called.
C15_DeviceOpsGatedByState ==
  [][ ( /\ last'.act = "op_begin"
        /\ last'.name \in DeviceOps
        /\ is_ok(last'.success) )
      => IF fsm_state \in LegalStates(last'.name)
         THEN /\ op'.pc = "body"
              /\ last'.called # None
         ELSE /\ op'.pc = "state_failed"
              /\ op'.success = "INCORRECT_STATE"
              /\ last'.called = None
    ]_vars

\* op_execute_device_direct reached the driver client in DIRECT_ACCESS_MODE.
C15_Witness ==
  /\ last.act = "op_begin"
  /\ last.name = "op_execute_device_direct"
  /\ fsm_state = "DIRECT_ACCESS_MODE"
  /\ last.called = "execute_direct"
  /\ op.pc = "body"

\* The step is the handling of the event by the handler of the state.
Transition(state, event) ==
  /\ last'.act = "transition"
  /\ fsm_state = state
  /\ last'.event = event

\* C16 as claimed: from UNINITIALIZED, INITIALIZE leads to INACTIVE exactly
\* when _start_driver leaves a driver pid; otherwise the agent stays in
\* UNINITIALIZED, the result is AGENT_INIT_FAILED and there is no driver.
C16_InitializeAsClaimed ==
  [][ Transition("UNINITIALIZED", "INITIALIZE")
      => /\ fsm_state' = "INACTIVE" <=> driver_pid' # None
         /\ driver_pid' = None
              => /\ fsm_state' = "UNINITIALIZED"
                 /\ last'.success = "AGENT_INIT_FAILED"
                 /\ driver_client' = None
    ]_vars

\* C16: from UNINITIALIZED, INITIALIZE leads to INACTIVE exactly when
\* _start_driver leaves a driver pid; otherwise the agent stays in
\* UNINITIALIZED without a driver, and the result is AGENT_INIT_FAILED when
\* _start_driver returned, while an exception _start_driver raised leaves
\* the handler.
C16_Initialize ==
  [][ Transition("UNINITIALIZED", "INITIALIZE")
      => LET sp == last'.calls[2][2]
         IN /\ last'.calls[2][1] = "_start_driver"
            /\ fsm_state' = "INACTIVE" <=> driver_pid' # None
            /\ driver_pid' # None
                 => /\ last'.success = "OK"
                    /\ driver_client' = driver_pid'
            /\ driver_pid' = None
                 => /\ fsm_state' = "UNINITIALIZED"
                    /\ driver_client' = None
                    /\ last'.success =
                         IF sp \in { "spawn_error", "client_error" }
                         THEN "raise" ELSE "AGENT_INIT_FAILED"
    ]_vars

\* The client construction failed: the driver that had been spawned was
\* stopped and the agent stayed in UNINITIALIZED with AGENT_INIT_FAILED.
C16_Witness ==
  /\ last.act = "transition"
  /\ last.from = "UNINITIALIZED"
  /\ last.event = "INITIALIZE"
  /\ last.calls[2] = << "_start_driver", "client_import_error" >>
  /\ last.success = "AGENT_INIT_FAILED"
  /\ fsm_state = "UNINITIALIZED"
  /\ driver_pid = None
  /\ next_pid = 2

\* C17 as claimed: from IDLE, RESET condemns the driver whatever the
\* disconnect came back with, and leads to UNINITIALIZED exactly when the
\* driver handle is empty afterwards, otherwise to INACTIVE with
\* AGENT_DEINIT_FAILED; the agent is never left in IDLE.
C17_ResetFromIdleAsClaimed ==
  [][ Transition("IDLE", "RESET")
      => /\ driver_pid \in SeqRange(condemned_drivers')
         /\ fsm_state' = "UNINITIALIZED" <=> driver_pid' = None
         /\ driver_pid' # None
              => /\ fsm_state' = "INACTIVE"
                 /\ last'.success = "AGENT_DEINIT_FAILED"
         /\ fsm_state' # "IDLE"
    ]_vars

\* C17: from IDLE, RESET first disconnects. When the disconnect replied OK
\* the driver is condemned, its handle is empty and the agent goes to
\* UNINITIALIZED. When the disconnect raised or replied an error the driver
\* is not condemned and the agent stays in IDLE, with DRIVER_CONNECT_FAILED
\* after an exception and the driver's error code after an error reply.
C17_ResetFromIdle ==
  [][ Transition("IDLE", "RESET")
      => LET reply == last'.calls[1][2]
         IN /\ last'.calls[1][1] = "disconnect"
            /\ IF is_ok(reply)
               THEN /\ condemned_drivers' = Append(condemned_drivers, driver_pid)
                    /\ driver_pid' = None
                    /\ driver_client' = None
                    /\ fsm_state' = "UNINITIALIZED"
                    /\ last'.success = "OK"
               ELSE /\ UNCHANGED driver_vars
                    /\ fsm_state' = "IDLE"
                    /\ last'.success = IF reply = "raise"
                                       THEN "DRIVER_CONNECT_FAILED" ELSE reply
    ]_vars

\* The disconnect raised: the agent stayed in IDLE with its driver.
C17_Witness ==
  /\ last.act = "transition"
  /\ last.from = "IDLE"
  /\ last.event = "RESET"
  /\ last.calls = << << "disconnect", "raise" >> >>
  /\ last.success = "DRIVER_CONNECT_FAILED"
  /\ fsm_state = "IDLE"
  /\ driver_pid # None

\* The events each state's handler has a branch for.
MatchedEvents(state) ==
  CASE state = "POWERED_DOWN" -> { }
    [] state = "UNINITIALIZED" -> { "INITIALIZE", "RESET" }
    [] state = "INACTIVE" -> { "RESET", "INITIALIZE", "GO_ACTIVE" }
    [] state = "IDLE" -> { "GO_INACTIVE", "RESET", "RUN" }
    [] state = "STOPPED" -> { "CLEAR", "RESUME", "GO_INACTIVE", "RESET" }
    [] state = "OBSERVATORY_MODE" ->
         { "CLEAR", "PAUSE", "GO_DIRECT_ACCESS_MODE", "GO_INACTIVE", "RESET" }
    [] state = "DIRECT_ACCESS_MODE" ->
         { "GO_OBSERVATORY_MODE", "GO_INACTIVE", "RESET" }

\* C18: an event the handler of the current state has no branch for is
\* answered with INCORRECT_STATE, the state stays as it is, and neither the
\* driver client nor a driver lifecycle method is called.
C18_UnmatchedEvent ==
  [][ ( /\ last'.act = "transition"
        /\ last'.event \notin MatchedEvents(fsm_state) )
      => /\ last'.success = "INCORRECT_STATE"
         /\ fsm_state' = fsm_state
         /\ last'.calls = << >>
         /\ UNCHANGED driver_vars
    ]_vars

\* PAUSE was refused in IDLE.
C18_Witness ==
  /\ last.act = "transition"
  /\ last.from = "IDLE"
  /\ last.event = "PAUSE"
  /\ last.success = "INCORRECT_STATE"
  /\ fsm_state = "IDLE"

\* The edges of the transition table, with the fallback of a RESET to
\* INACTIVE.
TableEdges ==
  { << "UNINITIALIZED", "INACTIVE" >>,
    << "INACTIVE", "UNINITIALIZED" >>, << "INACTIVE", "IDLE" >>,
    << "IDLE", "INACTIVE" >>, << "IDLE", "UNINITIALIZED" >>,
    << "IDLE", "OBSERVATORY_MODE" >>,
    << "STOPPED", "IDLE" >>, << "STOPPED", "OBSERVATORY_MODE" >>,
    << "STOPPED", "INACTIVE" >>, << "STOPPED", "UNINITIALIZED" >>,
    << "OBSERVATORY_MODE", "IDLE" >>, << "OBSERVATORY_MODE", "STOPPED" >>,
    << "OBSERVATORY_MODE", "DIRECT_ACCESS_MODE" >>,
    << "OBSERVATORY_MODE", "INACTIVE" >>,
    << "OBSERVATORY_MODE", "UNINITIALIZED" >>,
    << "DIRECT_ACCESS_MODE", "OBSERVATORY_MODE" >>,
    << "DIRECT_ACCESS_MODE", "INACTIVE" >>,
    << "DIRECT_ACCESS_MODE", "UNINITIALIZED" >> }

\* C19: the state machine starts in UNINITIALIZED, its current state is
\* always one of the agent states, and every change of the current state
\* follows an edge of the transition table.
C19_StateMachineEdges ==
  /\ fsm_state = "UNINITIALIZED"
  /\ [](fsm_state \in AgentStates)
  /\ [][ fsm_state' # fsm_state
           => << fsm_state, fsm_state' >> \in TableEdges ]_vars

\* RESUME took the agent from STOPPED back to OBSERVATORY_MODE.
C19_Witness ==
  /\ last.act = "transition"
  /\ last.from = "STOPPED"
  /\ last.event = "RESUME"
  /\ fsm_state = "OBSERVATORY_MODE"

\* C20 as claimed: in INACTIVE, GO_ACTIVE configures the driver and connects
\* only when the configuration succeeded; the agent goes to IDLE only when
\* both succeeded, and after any failure of either it stays in INACTIVE with
\* the result DRIVER_CONNECT_FAILED.
C20_GoActiveAsClaimed ==
  [][ Transition("INACTIVE", "GO_ACTIVE")
      => LET calls == last'.calls
             both == Len(calls) = 2 /\ is_ok(calls[1][2]) /\ is_ok(calls[2][2])
         IN /\ calls[1][1] = "configure"
            /\ Len(calls) = 2 <=> is_ok(calls[1][2])
            /\ fsm_state' = "IDLE" <=> both
            /\ ~ both => /\ fsm_state' = "INACTIVE"
                         /\ last'.success = "DRIVER_CONNECT_FAILED"
    ]_vars

\* C20: in INACTIVE, GO_ACTIVE configures the driver and connects only when
\* the configuration replied OK; the agent goes to IDLE exactly when both
\* replied OK and stays in INACTIVE otherwise. The result is
\* DRIVER_CONNECT_FAILED when the connection raised; an error reply of the
\* configuration or of the connection is passed on with its own code, and an
\* exception of the configuration leaves the handler.
C20_GoActive ==
  [][ Transition("INACTIVE", "GO_ACTIVE")
      => LET calls == last'.calls
             both == Len(calls) = 2 /\ is_ok(calls[1][2]) /\ is_ok(calls[2][2])
         IN /\ calls[1][1] = "configure"
            /\ Len(calls) = 2 <=> is_ok(calls[1][2])
            /\ Len(calls) = 2 => calls[2][1] = "connect"
            /\ fsm_state' = "IDLE" <=> both
            /\ ~ both => fsm_state' = "INACTIVE"
            /\ UNCHANGED driver_vars
            /\ last'.success =
                 IF Len(calls) = 1 THEN calls[1][2]
                 ELSE IF calls[2][2] = "raise" THEN "DRIVER_CONNECT_FAILED"
                 ELSE calls[2][2]
    ]_vars

\* The configuration replied an error: no connection was attempted, the
\* agent stayed in INACTIVE and the driver's own code was the result.
C20_Witness ==
  /\ last.act = "transition"
  /\ last.from = "INACTIVE"
  /\ last.event = "GO_ACTIVE"
  /\ last.calls = << << "configure", "TIMEOUT" >> >>
  /\ last.success = "TIMEOUT"
  /\ fsm_state = "INACTIVE"

Executing == op.pc # "idle"

C23_PidAndClientTogether ==
  (driver_pid # None) <=> (driver_client # None)

\* A driver was started and condemned: both fields are empty again.
C23_Witness ==
  /\ driver_pid = None
  /\ driver_client = None
  /\ condemned_drivers # << >>
  /\ fsm_state = "UNINITIALIZED"

\* ---------------------------------------------------------------------
\* C24: condemning an active driver appends its pid to the condemned list,
\* clears pid and client, calls no shutdown and leaves the children as they
\* are; condemning or stopping with no active driver, and reaping with no
\* active driver and no condemned child among the children, change nothing.
CondemnedChildren ==
  SelectSeq(child_procs, LAMBDA item : item \in SeqRange(condemned_drivers))

C24_CondemnAndNoOps ==
  [][ /\ (last'.act = "condemn_driver" /\ driver_pid # None)
         => /\ condemned_drivers' = Append(condemned_drivers, driver_pid)
            /\ driver_pid' = None
            /\ driver_client' = None
            /\ shut_down' = shut_down
            /\ child_procs' = child_procs
      /\ (last'.act \in { "condemn_driver", "stop_driver" }
            /\ driver_pid = None)
         => UNCHANGED driver_vars
      /\ (last'.act = "stop_condemned_drivers" /\ driver_pid = None
            /\ CondemnedChildren = << >>)
         => UNCHANGED driver_vars
    ]_vars

\* The second driver has just been condemned while the first one, condemned
\* earlier, is still a child: no shutdown has been called.
C24_Witness ==
  /\ last.act = "condemn_driver"
  /\ Len(condemned_drivers) = 2
  /\ child_procs = condemned_drivers
  /\ shut_down = << >>
  /\ driver_pid = None

\* ---------------------------------------------------------------------
\* C25: reaping shuts down every child that is in the condemned list,
\* removes those children from the active children, and removes their pids
\* from the condemned list.
C25_ReapClearsCondemned ==
  [][ last'.act = "stop_condemned_drivers"
      => /\ shut_down' = shut_down \o CondemnedChildren
         /\ child_procs' = SelectSeq(child_procs,
              LAMBDA item : item \notin SeqRange(condemned_drivers))
         /\ \A i \in 1 .. Len(CondemnedChildren) :
              CondemnedChildren[i] \notin SeqRange(condemned_drivers')
    ]_vars

\* ---------------------------------------------------------------------
\* C26: startDriver never leaves a half-started driver: when it does not
\* spawn (missing descriptor, spawn failure) the handle stays empty and no
\* child is added; when the client cannot be built the spawned child is
\* shut down and removed from the children and pid and client are empty;
\* otherwise pid and client are both set, to a child that is running.
C26_NoHalfStartedDriver ==
  [][ last'.act = "start_driver"
      => LET spawned == PidPool[next_pid]
         IN CASE last'.sp \in { "no_desc", "spawn_import_error",
                                "spawn_error" } ->
                   /\ driver_pid' = None /\ driver_client' = None
                   /\ child_procs' = child_procs
                   /\ shut_down' = shut_down
              [] last'.sp \in { "client_import_error", "client_error" } ->
                   /\ driver_pid' = None /\ driver_client' = None
                   /\ child_procs' = child_procs
                   /\ shut_down' = Append(shut_down, spawned)
              [] last'.sp = "ok" ->
                   /\ driver_pid' = spawned /\ driver_client' = spawned
                   /\ child_procs' = Append(child_procs, spawned)
                   /\ shut_down' = shut_down
    ]_vars

\* A client that could not be built: the child spawned for it was shut down
\* and is no child any more, although an earlier driver still is one.
C26_Witness ==
  /\ last.act = "start_driver"
  /\ last.sp = "client_error"
  /\ driver_pid = None
  /\ driver_client = None
  /\ shut_down = << PidPool[2] >>
  /\ child_procs = << PidPool[1] >>

\* ---------------------------------------------------------------------
\* C27: _end_transaction never fails abnormally: every call of it, from
\* op_end_transaction, from the expiration timer and from the cleanup step
\* of a handler (with the then-current token), returns OK,
\* RESOURCE_NOT_LOCKED or LOCKED_RESOURCE, also when no transaction is
\* current.
EndCodes == { "OK", "RESOURCE_NOT_LOCKED", "LOCKED_RESOURCE" }

C27_EndTransactionNeverFails ==
  [][ /\ last'.act = "end_transaction" => last'.success \in EndCodes
      /\ last'.act = "transaction_expired"
           => last'.success \in EndCodes \cup { "deferred" }
      /\ (last'.act = "op_reply" /\ last'.path = "finally"
            /\ (op.tid = "create" \/ transaction_timed_out))
           => end_transaction(Agent, transaction_id).success \in EndCodes
    ]_vars

\* ---------------------------------------------------------------------
\* C28: every transaction that is started (by a request, by a handover from
\* the queue, or implicitly by "create") has its expiration timer armed with
\* a timeout between the minimum and the maximum expiration timeout, and
\* with the default expiration timeout when the caller gave none, whatever
\* values the limits were set to by op_set_observatory; the acquisition
\* timeout of a queued request is at most the maximum acquisition timeout,
\* and a request that names no acquisition timeout is never queued.
TransactionStarts ==
  transaction_id' # None /\ transaction_id' # transaction_id

UnspecifiedExpiration ==
  \/ \E acq \in LimitAcqInputs :
       transaction_id = None /\ RequestTransaction(acq, NoneInt, "client")
  \/ last'.act = "op_begin" /\ last'.tid = "create" /\ last'.success = "OK"

C28_TimeoutsWithinLimits ==
  [][ /\ TransactionStarts
         => /\ transaction_timeout_call' \in reactor'
            /\ transaction_timeout_call'.key = transaction_id'
            /\ transaction_timeout_call'.delay >= limits.min_exp_timeout
            /\ transaction_timeout_call'.delay <= limits.max_exp_timeout
      /\ (TransactionStarts /\ UnspecifiedExpiration)
         => transaction_timeout_call'.delay = limits.default_exp_timeout
      /\ \A i \in 1 .. Len(pending_transactions') :
           i > Len(pending_transactions)
             => /\ pending_transactions'[i].call.delay
                     <= limits.max_acq_timeout
                /\ last'.acq_timeout # NoneInt
    ]_vars

\* ---------------------------------------------------------------------
\* C29: _request_transaction when no transaction is current calls the
\* deferred back at once with (OK, token), where the token is freshly
\* generated and becomes the current transaction with an expiration timer
\* armed for it; the request is not put in the queue and no acquisition
\* timer is started.
C29_RequestWhenFree ==
  [][ ( /\ last'.act = "request_transaction"
        /\ transaction_id = None )
      => /\ transaction_id' = uuid4(next_uuid)
         /\ transaction_id' \notin GeneratedTokens
         /\ deferreds' = [x \in DOMAIN deferreds \cup { last'.d } |->
                            IF x = last'.d
                            THEN << << "OK", transaction_id' >> >>
                            ELSE deferreds[x]]
         /\ last'.d \notin DOMAIN deferreds
         /\ transaction_timeout_call'.func = "transaction_expired"
         /\ transaction_timeout_call'.key = transaction_id'
         /\ reactor' = reactor \cup { transaction_timeout_call' }
         /\ transaction_timeout_call' \notin reactor
         /\ pending_transactions' = pending_transactions
         /\ transaction_timed_out' = transaction_timed_out
    ]_vars

\* A request with an acquisition timeout of 100 seconds found the resource
\* free after an earlier transaction had ended, and was granted at once.
C29_Witness ==
  /\ last.act = "request_transaction"
  /\ last.acq_timeout = 100
  /\ uuid4(1) \in ended_transactions
  /\ transaction_id = uuid4(2)
  /\ last.d \in DOMAIN deferreds
  /\ deferreds[last.d] = << << "OK", uuid4(2) >> >>
  /\ pending_transactions = << >>

\* ---------------------------------------------------------------------
\* C30: after any sequence of put, remove and update_index, a query with
\* the single equality predicate name == value returns exactly the stored
\* rows whose index attribute name has that value now: no removed key, no
\* key whose attribute has another value (also when the key was removed and
\* put again with another value), and every stored key that matches.
Matching(name, value) ==
  { k \in DOMAIN kvs :
      name \in DOMAIN kvs[k] /\ kvs[k][name] = value }

C30_QueryExact ==
  \A name \in IndexedAttributes, value \in AttributeValues :
    LET result == query(IndexStore, << << name, value >> >>)
    IN /\ DOMAIN result = Matching(name, value)
       /\ \A k \in DOMAIN result : result[k] = kvs[k]


\* ---------------------------------------------------------------------
\* C31: after put(key, value, attrs) with indexed attributes get(key)
\* returns value, and keeps returning it until the next put or remove of
\* that key; after remove(key) get(key) returns None and has_key(key) is
\* false; a remove of a key that is not stored changes nothing.
C31_RoundTrip ==
  [][ \A key \in StoreKeys :
        /\ (last'.act = "put" /\ last'.key = key) =>
             get(IndexStore, key)' = last'.value
        /\ (last'.act = "remove" /\ last'.key = key) =>
             /\ get(IndexStore, key)' = None
             /\ ~ has_key(IndexStore, key)'
             /\ ~ has_key(IndexStore, key) => UNCHANGED store_vars
        /\ (last'.act = "update_index" \/ last'.key # key) =>
             get(IndexStore, key)' = get(IndexStore, key)
    ]_vars

\* Key1 was put with a Subject, and put again with the second value and no
\* attribute: get returns the second value.
C31_Witness ==
  /\ last.act = "put"
  /\ last.key = "Key1"
  /\ get(IndexStore, "Key1") = "Value2"
  /\ DOMAIN kvs["Key1"] = { "value" }
  /\ "Me" \in DOMAIN indices["Subject"]
  /\ "Key1" \in indices["Subject"]["Me"]


\* ---------------------------------------------------------------------
\* C32: RESET is handled alike in IDLE, STOPPED, OBSERVATORY_MODE and
\* DIRECT_ACCESS_MODE: the handler calls the driver's disconnect first, an
\* exception of that call is answered with DRIVER_CONNECT_FAILED in each of
\* the four states, and a disconnect that replied OK is followed by the
\* condemning of the driver.
ConnectedStates ==
  { "IDLE", "STOPPED", "OBSERVATORY_MODE", "DIRECT_ACCESS_MODE" }

C32_ResetUniform ==
  [][ \A state \in ConnectedStates :
        Transition(state, "RESET")
        => LET reply == last'.calls[1][2]
           IN /\ last'.calls[1][1] = "disconnect"
              /\ reply = "raise" => last'.success = "DRIVER_CONNECT_FAILED"
              /\ is_ok(reply)
                   => /\ Len(last'.calls) = 2
                      /\ last'.calls[2][1] = "_condemn_driver"
                      /\ condemned_drivers'
                           = Append(condemned_drivers, driver_pid)
    ]_vars


\* ---------------------------------------------------------------------
\* C33: an operation called with the token of the current transaction
\* leaves that transaction current, with its token and its pending
\* expiration call, from its first step to its reply, unless the expiration
\* fired while the operation ran: the flag transaction_timed_out is not set
\* when the operation begins, and the finally clause ends a transaction only
\* for the token "create" or with that flag set.
OpRunsWithToken ==
  /\ op.pc \in { "body", "fsm", "fsm_done", "publish" }
  /\ op.tid \notin { "create", "none" }

OpSteps == { "op_body", "dispatch", "transition", "op_reply" }

C33_ExplicitTokenKept ==
  [][ /\ ( /\ last'.act = "op_begin"
           /\ transaction_id # None
           /\ last'.tid = transaction_id )
         => /\ ~ transaction_timed_out'
            /\ UNCHANGED << transaction_id, transaction_timeout_call >>
      /\ ( OpRunsWithToken /\ last'.act \in OpSteps /\ ~ transaction_timed_out )
         => UNCHANGED << transaction_id, transaction_timeout_call >>
      /\ ( /\ last'.act = "op_reply"
           /\ last'.path = "finally"
           /\ transaction_id' # transaction_id )
         => ( op.tid = "create" \/ transaction_timed_out )
    ]_vars


\* ---------------------------------------------------------------------
\* C34: whenever a protected operation replies with a result code that is
\* not OK (an error of the transaction verification, INCORRECT_STATE of
\* the state check or of the state machine, an error of the body), the
\* announcer was called for the error before the reply was sent.
C34_ErrorsAnnounced ==
  [][ ( /\ last'.act = "op_reply"
        /\ last'.replied
        /\ is_error(last'.success) )
      => last'.announced
    ]_vars


\* ---------------------------------------------------------------------
\* The states the handler of a state names as next state, for every event,
\* every outcome of the driver and the present driver handle.
NamedNextStates(state) ==
  { state_handlers(state, event, Driver, env).next_state :
      event \in AgentEvents, env \in TransitionEnvs } \ { None }

\* The states that sequences of events lead to from the states of S.
RECURSIVE ReachableFrom(_)
ReachableFrom(S) ==
  LET T == S \cup UNION { NamedNextStates(s) : s \in S }
  IN IF T = S THEN S ELSE ReachableFrom(T)

\* An event leads out of the current state.
HasExit ==
  \E event \in AgentEvents, env \in TransitionEnvs :
    on_event_async(fsm_state, event, Driver, env).state # fsm_state

\* C35 as claimed: some sequence of events leads from the current state,
\* and so from UNINITIALIZED, to POWERED_DOWN, and an event leads out of
\* the current state.
C35_PoweredDownReachable ==
  /\ "POWERED_DOWN" \in ReachableFrom({ fsm_state })
  /\ HasExit

\* C35: no sequence of events leads from UNINITIALIZED to POWERED_DOWN, and
\* an event leads out of every state the agent comes to be in.
C35_NoPoweredDownNoTerminal ==
  /\ fsm_state # "POWERED_DOWN"
  /\ HasExit

\* A RESET brought the agent from DIRECT_ACCESS_MODE back to UNINITIALIZED,
\* where INITIALIZE leads on.
C35_Witness ==
  /\ last.act = "transition"
  /\ last.from = "DIRECT_ACCESS_MODE"
  /\ last.event = "RESET"
  /\ fsm_state = "UNINITIALIZED"
  /\ ReachableFrom({ fsm_state }) = AgentStates \ { "POWERED_DOWN" }


\* ---------------------------------------------------------------------
\* C36: between events the state and the driver handle agree: in
\* UNINITIALIZED the agent has neither a driver pid nor a driver client; in
\* INACTIVE, IDLE, STOPPED, OBSERVATORY_MODE and DIRECT_ACCESS_MODE it has
\* both.
C36_StateAndDriverAgree ==
  /\ fsm_state = "UNINITIALIZED"
       => ( driver_pid = None /\ driver_client = None )
  /\ fsm_state \in { "INACTIVE", "IDLE", "STOPPED", "OBSERVATORY_MODE",
                     "DIRECT_ACCESS_MODE" }
       => ( driver_pid # None /\ driver_client # None )


\* A second driver runs after a RESET and a new INITIALIZE: the agent is in
\* INACTIVE with the pid and the client of the second driver.
C36_Witness ==
  /\ last.act = "transition"
  /\ last.from = "UNINITIALIZED"
  /\ last.event = "INITIALIZE"
  /\ fsm_state = "INACTIVE"
  /\ driver_pid = PidPool[2]
  /\ driver_client # None
  /\ condemned_drivers # << >>


\* ---------------------------------------------------------------------
\* C37: no lost wake-up: whenever a request waits in the queue a
\* transaction is current; the resource is never free with a request still
\* queued.
C37_NoLostWakeup ==
  pending_transactions # << >> => transaction_id # None


\* The first transaction was ended with two requests queued: the head of
\* the queue holds the second transaction and the other request still waits.
C37_Witness ==
  /\ uuid4(1) \in ended_transactions
  /\ transaction_id = uuid4(2)
  /\ Len(pending_transactions) = 1
  /\ last.act \in { "end_transaction", "transaction_expired" }


\* ---------------------------------------------------------------------
\* The pending expiration calls.
ExpirationCalls == { call \in reactor : call.func = "transaction_expired" }

\* C38: the expiry state belongs to the current transaction: a pending
\* expiration call or a set flag transaction_timed_out implies that a
\* transaction is current, at most one expiration call is pending and it is
\* the one armed for the current token, the flag is set only by the call of
\* the current token and stays with that token, and an expiration call that
\* ends a transaction ends the one it was armed for.
C38_ExpiryBelongsToCurrent ==
  /\ []( /\ ( ExpirationCalls # {} \/ transaction_timeout_call # NoCall
                \/ transaction_timed_out )
            => transaction_id # None
         /\ Cardinality(ExpirationCalls) <= 1
         /\ \A call \in ExpirationCalls :
              /\ call = transaction_timeout_call
              /\ call.key = transaction_id )
  /\ [][ /\ ( ~ transaction_timed_out /\ transaction_timed_out' )
            => /\ last'.act = "transaction_expired"
               /\ last'.tid = transaction_id
               /\ transaction_id' = transaction_id
         /\ ( transaction_timed_out /\ transaction_timed_out' )
            => transaction_id' = transaction_id
         /\ ( last'.act = "transaction_expired"
                /\ transaction_id' # transaction_id )
            => last'.tid = transaction_id
       ]_vars


\* The expiration call of the second transaction fired while an operation
\* was running: the flag is set, that transaction is still current and no
\* expiration call is pending.
C38_Witness ==
  /\ last.act = "transaction_expired"
  /\ last.tid = uuid4(2)
  /\ last.success = "deferred"
  /\ op.pc = "body"
  /\ transaction_timed_out
  /\ transaction_id = uuid4(2)
  /\ uuid4(1) \in ended_transactions
  /\ ExpirationCalls = {}


\* ---------------------------------------------------------------------
\* The cases in which _verify_transaction refuses the token of an
\* operation: a malformed token, "create" while a transaction is current,
\* "none" while a transaction is current or for an operation that is no
\* get, and a well-formed token that is not the current one.
VerificationFails(tid, name) ==
  CASE tid = "create" -> transaction_id # None
    [] tid = "none" -> transaction_id # None \/ optype(name) # "get"
    [] OTHER -> Len(tid) # UUID_LEN \/ tid # transaction_id

\* C39: an operation whose token is refused replies with an error, does not
\* reach its state check or its body, and neither its first step nor its
\* reply changes the current token, the pending expiration call or the
\* queue of waiting requests.
C39_FailedVerificationFrame ==
  [][ /\ ( /\ last'.act = "op_begin"
           /\ VerificationFails(last'.tid, last'.name) )
         => /\ is_error(last'.success)
            /\ op'.pc = "verify_failed"
            /\ last'.called = None
            /\ UNCHANGED << transaction_id, transaction_timeout_call,
                            pending_transactions, reactor >>
      /\ ( last'.act = "op_reply" /\ last'.path = "verify_failed" )
         => /\ is_error(last'.success)
            /\ UNCHANGED << transaction_id, transaction_timeout_call,
                            pending_transactions, reactor >>
    ]_vars

\* op_set_device was called with a forged token while a transaction was
\* current with a request waiting, and has replied LOCKED_RESOURCE.
C39_Witness ==
  /\ last.act = "op_reply"
  /\ last.path = "verify_failed"
  /\ last.tid = ForgedToken
  /\ last.name = "op_set_device"
  /\ last.success = "LOCKED_RESOURCE"
  /\ transaction_id = uuid4(1)
  /\ transaction_timeout_call \in reactor
  /\ Len(pending_transactions) = 1


\* ---------------------------------------------------------------------
\* The driver children that were spawned and not shut down.
SpawnedDrivers == { PidPool[i] : i \in 1 .. next_pid - 1 }
RunningDrivers == SpawnedDrivers \ SeqRange(shut_down)

\* C40: INITIALIZE in UNINITIALIZED reaps before it starts: the handler
\* calls _stop_condemned_drivers and then _start_driver, after which every
\* condemned driver that was among the children is shut down and no longer a
\* child; and between events at most one driver child that has not been
\* shut down exists.
C40_ReapedBeforeStart ==
  /\ [](Cardinality(RunningDrivers) <= 1)
  /\ [][ Transition("UNINITIALIZED", "INITIALIZE")
         => /\ Len(last'.calls) >= 2
            /\ last'.calls[1][1] = "_stop_condemned_drivers"
            /\ last'.calls[2][1] = "_start_driver"
            /\ \A pid \in SeqRange(condemned_drivers) :
                 /\ pid \in SeqRange(shut_down')
                 /\ pid \notin SeqRange(child_procs')
            /\ RunningDrivers' \subseteq { driver_pid' }
       ]_vars

\* The first driver was condemned by a RESET and reaped by the INITIALIZE
\* that started the second one: only the second driver is running.
C40_Witness ==
  /\ last.act = "transition"
  /\ last.from = "UNINITIALIZED"
  /\ last.event = "INITIALIZE"
  /\ condemned_drivers = << PidPool[1] >>
  /\ shut_down = << PidPool[1] >>
  /\ child_procs = << PidPool[2] >>
  /\ driver_pid = PidPool[2]
  /\ RunningDrivers = { PidPool[2] }

====
